---------------------------- MODULE Spec2Model ----------------------------
(***************************************************************************)
(* bkash-js: the retry executor (RetryService), the token manager          *)
(* (TokenManager), the request services (PaymentService,                   *)
(* TransactionService, RefundService), the webhook service                 *)
(* (WebhookService) and the event bus (EventEmitterAdapter), as wired by   *)
(* BkashServiceFactory.                                                    *)
(*                                                                         *)
(* In Spec, RetrySpec, TokenSpec and WebhookSpec one public call runs at a *)
(* time.  A call is a stack of retryOperation frames (the service          *)
(* operation, and inside it the token acquisition of getToken); pc is the  *)
(* position of the running call.  The clock only moves where the code      *)
(* awaits: while a request is in flight, during a backoff sleep, and       *)
(* between calls.  LegacySpec is refundPaymentLegacy with its inputs and   *)
(* responses spelled out; LifecycleSpec is one payment, created and then   *)
(* executed or verified, beside the events of other operations.  In        *)
(* ConcSpec two callers of getToken() run interleaved at their awaits, and *)
(* in ManagerSpec grantToken(), refreshToken(v) and clearToken() run       *)
(* beside them.  LiveSpec is one call under the event loop, which runs     *)
(* the continuation of every await that has settled.                       *)
(***************************************************************************)
EXTENDS Integers, Sequences, FiniteSets, TLC

VARIABLES
    cfgMaxRetries,  \* config.maxRetries (Unset when the caller gave none)
    cfgRetryDelay,  \* config.retryDelay (Unset when the caller gave none)
    token,          \* TokenManager.token (NoToken for null)
    tokenExpiry,    \* TokenManager.tokenExpiry in ms (NoExpiry for null)
    now,            \* the clock, Date.now() in ms
    pc,             \* position of the running call
    call,           \* the running (or last) public call and the cache it met
    frames,         \* the stack of retryOperation activations
    thrown,         \* the error in flight
    authToken,      \* the operation's local `token`
    outcome,        \* how the last call settled
    lastRetry,      \* the retryOperation activation that settled last
    validations,    \* schema parses run by the call
    tokenReqs,      \* token grant requests issued by the call
    apiReqs,        \* API requests issued by the call
    events,         \* event types published by the call, in order
    sleeps,         \* backoff sleeps requested by the call, in order
    tokSeq,         \* tokens issued by the upstream so far
    calls,          \* public calls started
    cfgSecret,      \* config.webhook?.secret (NoSecret when not configured)
    cfgOnEvent,     \* whether config.webhook?.onEvent is configured
    callbackRuns,   \* invocations of config.webhook.onEvent by the call
    procs,          \* the getToken() calls running concurrently
    serviceCalls,   \* the methods invoked for the call, with their arguments
    responseData,   \* response.data of the call's last API response
    result,         \* the value the call returned
    eventData,      \* what each published event is about, in order
    tokenData       \* response.data of the call's last grant response

vars == <<cfgMaxRetries, cfgRetryDelay, token, tokenExpiry, now, pc, call, frames,
          thrown, authToken, outcome, lastRetry, validations, tokenReqs, apiReqs,
          events, sleeps, tokSeq, calls, cfgSecret, cfgOnEvent, callbackRuns,
          procs, serviceCalls, responseData, result, eventData, tokenData>>

----------------------------------------------------------------------------
(* Bounds of the model *)

MaxCfgRetries == 2
MaxCalls == 2
MaxLeafCalls == 4
MaxStartTime == 1000
DigestLen == 2
MaxPayloadLen == 2

----------------------------------------------------------------------------
(* Program constants *)

Unset == 0
NoToken == 0
NoExpiry == -1
DefaultMaxRetries == 3
DefaultRetryDelay == 1000
DefaultExpiresIn == 3600
MsPerSecond == 1000

\* config.maxRetries || 3
MaxRetries == IF cfgMaxRetries = Unset THEN DefaultMaxRetries ELSE cfgMaxRetries

\* config.retryDelay || 1000
RetryDelay == IF cfgRetryDelay = Unset THEN DefaultRetryDelay ELSE cfgRetryDelay

----------------------------------------------------------------------------
(* Errors.  details holds zero or one value: BkashError.details, or the    *)
(* response body of an AxiosError (empty when there is no response).  id   *)
(* is the identity of the error object: the attempt of the operation, the  *)
(* attempt of the token acquisition inside it, and the place that created  *)
(* it.                                                                     *)

Err(kind, code, details, id) ==
    [kind |-> kind, code |-> code, details |-> details, id |-> id]

NoError == Err("none", "", <<>>, <<0, 0, 0>>)

Body(id) == Err("ResponseData", "", <<>>, id)

\* error instanceof AxiosError ? error.response?.data : error
ErrorDetails(error) ==
    IF error.kind = "AxiosError" THEN error.details ELSE <<error>>

\* new BkashError(message, code, details)
BkashError(code, details, id) == Err("BkashError", code, details, id)

\* The error an upstream request is rejected with.
AxiosError(resp, id) ==
    Err("AxiosError", "", IF resp = "errBody" THEN <<Body(id)>> ELSE <<>>, id)

----------------------------------------------------------------------------
(* The operations of the request services *)

PaymentOps == {"createPayment", "createPaymentFull", "executePayment", "verifyPayment"}
TransactionOps == {"queryPayment", "checkTransactionStatus", "searchTransaction"}
RefundOps == {"refundPayment", "checkRefundStatus"}
ServiceOps == PaymentOps \cup TransactionOps \cup RefundOps

\* The deprecated methods, which convert their input, call the current
\* method and convert its result.
LegacyOps == {"searchTransactionLegacy", "refundPaymentLegacy"}

\* The operation whose closure runs under retryOperation.
Inner(op) ==
    CASE op = "searchTransactionLegacy" -> "searchTransaction"
      [] op = "refundPaymentLegacy" -> "refundPayment"
      [] OTHER -> op

\* grantToken() and refreshToken(v): one request, outside retryOperation.
DirectOps == {"grantToken", "refreshToken"}

\* The code the catch block of grantToken / refreshToken gives its BkashError.
DirectErrorCode(op) ==
    IF op = "grantToken" THEN "TOKEN_GRANT_ERROR" ELSE "TOKEN_REFRESH_ERROR"

\* The code each operation's catch block gives its BkashError.
ErrorCode(op) ==
    CASE op = "createPayment" -> "PAYMENT_CREATE_ERROR"
      [] op = "createPaymentFull" -> "PAYMENT_CREATE_ERROR"
      [] op = "executePayment" -> "PAYMENT_EXECUTE_ERROR"
      [] op = "verifyPayment" -> "PAYMENT_VERIFY_ERROR"
      [] op = "queryPayment" -> "PAYMENT_QUERY_ERROR"
      [] op = "checkTransactionStatus" -> "TRANSACTION_STATUS_ERROR"
      [] op = "searchTransaction" -> "SEARCH_ERROR"
      [] op = "refundPayment" -> "REFUND_ERROR"
      [] op = "checkRefundStatus" -> "REFUND_STATUS_ERROR"

\* A createPayment that publishes nothing.
SuccessEventButOfCreate(op, resp) ==
    CASE op = "executePayment" ->
            IF resp = "ok" THEN "payment.success" ELSE "payment.failed"
      [] op = "verifyPayment" -> "payment.success"
      [] op = "refundPayment" -> "refund.success"
      [] op = "checkRefundStatus" -> "refund.status.checked"
      [] OTHER -> ""

\* The event each operation's try block emits after a response ("" for none).
SuccessEvent(op, resp) ==
    CASE op \in {"createPayment", "createPaymentFull"} -> "payment.created"
      [] op = "executePayment" ->
            IF resp = "ok" THEN "payment.success" ELSE "payment.failed"
      [] op = "verifyPayment" -> "payment.success"
      [] op = "refundPayment" -> "refund.success"
      [] op = "checkRefundStatus" -> "refund.status.checked"
      [] OTHER -> ""

\* Every operation's catch block emitting a failure event.
FailureEventOfAll(op) ==
    CASE op = "refundPayment" -> "refund.failed"
      [] op = "checkRefundStatus" -> "refund.status.failed"
      [] OTHER -> "payment.failed"

\* The event each operation's catch block emits ("" for none).
FailureEvent(op) ==
    CASE op \in {"executePayment", "verifyPayment"} -> "payment.failed"
      [] op = "refundPayment" -> "refund.failed"
      [] op = "checkRefundStatus" -> "refund.status.failed"
      [] OTHER -> ""

----------------------------------------------------------------------------
(* The upstream and the subscribers: what they may answer *)

\* ok: HTTP success with statusCode "0000"; okFailed: HTTP success with
\* another statusCode; errBody: rejected with a response body; errNet:
\* rejected without a response.
ApiResponses == {"ok", "okFailed", "errBody", "errNet"}

\* ok: id_token present; noToken: HTTP success without id_token.
TokenResponses == {"ok", "noToken", "errBody", "errNet"}

\* expires_in of a grant response, in seconds: omitted, or one second.
ExpiresIn == {{}, {1}}

\* response.data of a grant response, as far as getToken reads it.
GrantData(id_token, expires_in) == [id_token |-> id_token, expires_in |-> expires_in]

\* No grant response (yet).
NoTokenData == GrantData(NoToken, {})

----------------------------------------------------------------------------
(* Inputs, response bodies and return values, as far as the code reads     *)
(* them.  An identifier is a string taken whole; a string the code looks   *)
(* into is a sequence of one-character strings; an optional field is the   *)
(* empty set when absent and {value} when given.                           *)

Last(seq) == seq[Len(seq)]

\* How many elements of seq are in S.
Count(seq, S) == Cardinality({i \in 1..Len(seq) : seq[i] \in S})

\* No usable payment identifier: undefined or the empty string, which
\* TransactionIdSchema (z.string().min(1)) rejects alike.
NoPayment == 0

\* refundTransactionStatus missing from a refund response
NoStatus == ""

\* response.data: the paymentID of a create response and the
\* refundTransactionStatus of a refund response.
NoBody == [paymentID |-> NoPayment, refundTransactionStatus |-> NoStatus]

\* Nothing returned (yet).
NoResult == [paymentID |-> NoPayment]

\* The status strings a refund response may carry.
RefundStatuses == {"Completed", "Failed", NoStatus}

\* The bodies the upstream may answer a request of op with; fresh is the
\* identifier it gives a payment it creates.  A request that is rejected
\* brings no response.data.
Bodies(op, resp, fresh) ==
    CASE resp \notin {"ok", "okFailed"} -> {NoBody}
      [] op \in {"createPayment", "createPaymentFull"} ->
            {[NoBody EXCEPT !.paymentID = id] : id \in {NoPayment, fresh}}
      [] op = "refundPayment" ->
            {[NoBody EXCEPT !.refundTransactionStatus = st] : st \in RefundStatuses}
      [] OTHER -> {NoBody}

\* The body of a response that carries what the operation asked for.  No
\* operation looks into response.data to decide what it does next.
UsualBodies(op, resp, fresh) ==
    CASE resp \notin {"ok", "okFailed"} -> {NoBody}
      [] op \in {"createPayment", "createPaymentFull"} ->
            {[NoBody EXCEPT !.paymentID = fresh]}
      [] op = "refundPayment" ->
            {[NoBody EXCEPT !.refundTransactionStatus = "Completed"]}
      [] OTHER -> {NoBody}

\* The input of a method that takes one: an input its schema accepts or
\* one it rejects; for executePayment and verifyPayment, the payment id.
SampleInput(valid) == IF valid THEN 1 ELSE NoPayment

\* A number: sign * 0.d1 d2 ... dk * 10^point.
Amount(digits, point) == [sign |-> 1, digits |-> digits, point |-> point]

DigitChars == <<"0", "1", "2", "3", "4", "5", "6", "7", "8", "9">>

IsDigit(c) == \E i \in 1..10 : DigitChars[i] = c

\* The characters of digits d1 d2 ...
DigitString(digits) == [i \in 1..Len(digits) |-> DigitChars[digits[i] + 1]]

Zeros(n) == [i \in 1..n |-> "0"]

\* The decimal text of a natural number.
RECURSIVE NatToString(_)
NatToString(n) ==
    IF n < 10 THEN <<DigitChars[n + 1]>>
    ELSE NatToString(n \div 10) \o <<DigitChars[(n % 10) + 1]>>

\* Number.prototype.toString() of a positive finite number.  The number is
\* 0.d1 d2 ... dk * 10^point with d1..dk its shortest digits (d1, dk # 0):
\* positional notation while -6 < point <= 21, exponent notation outside.
NumberToString(amount) ==
    LET s == DigitString(amount.digits)
        k == Len(s)
        n == amount.point
        e == n - 1
        exponent == <<"e", IF e < 0 THEN "-" ELSE "+">>
                    \o NatToString(IF e < 0 THEN -e ELSE e)
    IN  IF k <= n /\ n <= 21 THEN s \o Zeros(n - k)
        ELSE IF 0 < n /\ n <= 21
             THEN SubSeq(s, 1, n) \o <<".">> \o SubSeq(s, n + 1, k)
        ELSE IF -6 < n /\ n <= 0 THEN <<"0", ".">> \o Zeros(-n) \o s
        ELSE IF k = 1 THEN s \o exponent
        ELSE <<s[1], ".">> \o SubSeq(s, 2, k) \o exponent

\* /^\d+(\.\d{1,2})?$/
MatchesAmountFormat(str) ==
    \E k \in 1..Len(str) :
        /\ \A i \in 1..k : IsDigit(str[i])
        /\ \/ k = Len(str)
           \/ /\ str[k + 1] = "."
              /\ Len(str) - (k + 1) \in {1, 2}
              /\ \A i \in (k + 2)..Len(str) : IsDigit(str[i])

\* LegacyRefundDataSchema: paymentId and transactionId of at least one
\* character, a positive amount, an optional reason.
LegacyRefundDataValid(refundData) ==
    /\ refundData.paymentId # ""
    /\ refundData.transactionId # ""
    /\ refundData.amount.sign = 1

\* RefundDataSchema: paymentId, trxId and sku of at least one character, a
\* refundAmount of digits with at most two decimals, an optional reason.
RefundDataValid(refundData) ==
    /\ refundData.paymentId # ""
    /\ refundData.trxId # ""
    /\ refundData.refundAmount # <<>>
    /\ MatchesAmountFormat(refundData.refundAmount)
    /\ refundData.sku # ""

\* refundData.reason || 'Customer request': the default replaces an
\* absent reason and the empty string.
ReasonOrDefault(reason) ==
    IF reason = {} \/ reason = {""} THEN "Customer request"
    ELSE CHOOSE r \in reason : TRUE

\* const newRefundData: RefundData = { ... } of refundPaymentLegacy
NewRefundData(refundData) ==
    [paymentId |-> refundData.paymentId,
     trxId |-> refundData.transactionId,
     refundAmount |-> NumberToString(refundData.amount),
     sku |-> "LEGACY",
     reason |-> ReasonOrDefault(refundData.reason)]

\* A legacy response that reports success whatever the refund's status.
LegacyStatusAlwaysSuccessful(status) == <<"0000", "Successful">>

\* result.refundTransactionStatus === 'Completed' ? '0000' : '0001' and
\* ... ? 'Successful' : 'Failed'
LegacyStatus(status) ==
    IF status = "Completed" THEN <<"0000", "Successful">> ELSE <<"0001", "Failed">>

\* What the method returns for response.data.
ResultOf(op, args, body) ==
    CASE op = "createPayment" -> [paymentID |-> body.paymentID]
      [] op = "refundPaymentLegacy" ->
            [statusCode |-> LegacyStatus(body.refundTransactionStatus)[1],
             statusMessage |-> LegacyStatus(body.refundTransactionStatus)[2],
             paymentID |-> args.paymentId]
      [] op = "searchTransactionLegacy" -> [paymentID |-> NoPayment]
      [] OTHER -> body

\* The payment an event is about: the one the response names for a create,
\* the one the caller named for an execute or verify.
EventSubject(op, args, body) ==
    CASE op \in {"createPayment", "createPaymentFull"} -> body.paymentID
      [] op \in {"executePayment", "verifyPayment"} -> args
      [] OTHER -> NoPayment

\* The service a method of the client belongs to.
ServiceOf(op) ==
    CASE op \in {"grantToken", "refreshToken", "getToken"} -> "tokenManager"
      [] op \in PaymentOps -> "paymentService"
      [] op \in TransactionOps \cup {"searchTransactionLegacy"} -> "transactionService"
      [] op \in RefundOps \cup {"refundPaymentLegacy"} -> "refundService"
      [] op \in {"handleWebhook", "verifyWebhookSignature"} -> "webhookService"
      [] OTHER -> "retryService"

\* A client method that hands its service nothing of what it was given.
DelegateWithoutArgs(op, args) ==
    [service |-> ServiceOf(op), method |-> op, args |-> NoPayment]

\* return this.<service>.<method>(<args>): the call a method of the
\* client makes.
Delegate(op, args) == [service |-> ServiceOf(op), method |-> op, args |-> args]

----------------------------------------------------------------------------
(* TokenManager *)

\* getToken trusting the cache only until the call has once been given a
\* token.
TokenValidOnce(tok, expiry, t) ==
    tok # NoToken /\ expiry # NoExpiry /\ expiry > t /\ authToken = NoToken

\* getToken never trusting the cache.
TokenValidNever(tok, expiry, t) == FALSE

\* getToken trusting any cached token, whatever its expiry.
TokenValidForever(tok, expiry, t) == tok # NoToken /\ expiry # NoExpiry

\* getToken still using the cached token at the instant of its expiry.
TokenValidAtExpiry(tok, expiry, t) == tok # NoToken /\ expiry # NoExpiry /\ expiry >= t

\* this.token && this.tokenExpiry && this.tokenExpiry > new Date()
TokenValid(tok, expiry, t) == tok # NoToken /\ expiry # NoExpiry /\ expiry > t

\* tokenData.id_token: a token the upstream has not issued before, or none.
IdToken(resp) == IF resp = "ok" THEN tokSeq + 1 ELSE NoToken

\* An acquisition that takes every response for a token.
IdTokenNotChecked(resp) == resp \in {"ok", "noToken"}

\* if (!tokenData.id_token) throw ...: past it, the response has a token.
IdTokenPresent(resp) == resp = "ok"

\* An expiry that forgets the lifetime of the token.
ExpiryAtOnce(t, expires_in) == t

\* tokenData.expires_in || 3600: the default replaces an omitted lifetime
\* and a lifetime of 0.
ExpiresInOrDefault(expires_in) ==
    IF expires_in = {} \/ expires_in = {0} THEN DefaultExpiresIn
    ELSE CHOOSE n \in expires_in : TRUE

\* new Date(Date.now() + (expiresIn * 1000)) with expiresIn = expires_in || 3600
ExpiryOf(t, expires_in) == t + ExpiresInOrDefault(expires_in) * MsPerSecond

----------------------------------------------------------------------------
(* retryOperation activations *)

Frame(kind) == [kind |-> kind, attempt |-> 1, invoked |-> 0,
                lastError |-> NoError, caught |-> <<>>]

Top == frames[Len(frames)]

SetTop(f) == [frames EXCEPT ![Len(frames)] = f]

Pop == SubSeq(frames, 1, Len(frames) - 1)

Settled(f, status, error) ==
    [kind |-> f.kind, invoked |-> f.invoked, status |-> status,
     error |-> error, caught |-> f.caught]

NoRetry == [kind |-> "none", invoked |-> 0, status |-> "none",
            error |-> NoError, caught |-> <<>>]

NoOutcome == [status |-> "none", value |-> 0, error |-> NoError]

Resolved(v) == [status |-> "resolved", value |-> v, error |-> NoError]

Rejected(e) == [status |-> "rejected", value |-> 0, error |-> e]


----------------------------------------------------------------------------
(* Initial state: a client built by BkashServiceFactory from a config that *)
(* passed BkashConfigSchema, with an empty token cache.                    *)

\* maxRetries: z.number().int().min(1).max(5).optional()
MinMaxRetries == 1
MaxMaxRetries == 5

\* retryDelay: z.number().int().min(100).max(5000).optional()
MinRetryDelay == 100
MaxRetryDelay == 5000

\* config.webhook absent
NoSecret == 0

\* One caller of getToken(): where it is, the attempt of its acquisition,
\* when its backoff sleep ends; and, for the record, the tokens issued
\* before it called, whether another caller was acquiring when it called,
\* the token its own acquisition received, what it settled with and when,
\* and the expiry the cache gave for the token it returned.
IdleProc == [pc |-> "idle", attempt |-> 1, wakeAt |-> 0, seq0 |-> 0,
             overlap |-> FALSE, acquired |-> NoToken, result |-> NoToken,
             expiry |-> NoExpiry, doneAt |-> -1, status |-> "none"]

Procs == {1, 2}

\* Everything but the configuration: nothing cached, nothing running.
Fresh ==
    /\ callbackRuns = 0
    /\ procs = [p \in Procs |-> IdleProc]
    /\ token = NoToken
    /\ tokenExpiry = NoExpiry
    /\ now = 0
    /\ pc = "idle"
    /\ call = [op |-> "none", args |-> NoPayment, valid |-> TRUE,
               legacyValid |-> TRUE, payload |-> <<>>, signature |-> <<>>,
               tok0 |-> NoToken, exp0 |-> NoExpiry, t0 |-> 0, seq0 |-> 0]
    /\ frames = <<>>
    /\ thrown = NoError
    /\ authToken = NoToken
    /\ outcome = NoOutcome
    /\ lastRetry = NoRetry
    /\ validations = 0
    /\ tokenReqs = 0
    /\ apiReqs = 0
    /\ events = <<>>
    /\ sleeps = <<>>
    /\ tokSeq = 0
    /\ calls = 0
    /\ serviceCalls = <<>>
    /\ responseData = NoBody
    /\ result = NoResult
    /\ eventData = <<>>
    /\ tokenData = NoTokenData

\* A client without webhook configuration.
Constructed(maxRetriesGiven, retryDelayGiven) ==
    /\ cfgMaxRetries \in maxRetriesGiven
    /\ cfgRetryDelay \in retryDelayGiven
    /\ cfgSecret = NoSecret
    /\ cfgOnEvent = FALSE
    /\ Fresh

\* The request services run with maxRetries 1..MaxCfgRetries and the default delay.
Init == Constructed(MinMaxRetries..MaxCfgRetries, {Unset})

\* The retry executor and the token manager run with every maxRetries the
\* schema admits, and with no, the least and the greatest retryDelay.
LeafInit ==
    Constructed({Unset} \cup (MinMaxRetries..MaxMaxRetries),
                {Unset, MinRetryDelay, MaxRetryDelay})

----------------------------------------------------------------------------
(* Identity of an error created now, at place `stage` of the running code. *)

ErrId(stage) ==
    <<IF Len(frames) > 0 THEN frames[1].attempt ELSE 0,
      IF Len(frames) > 1 THEN frames[2].attempt ELSE 0,
      stage>>

----------------------------------------------------------------------------
(* A caller starts a public call.  op is a request service operation,      *)
(* "getToken" (TokenManager.getToken called directly) or "retryOperation"  *)
(* (RetryService.retryOperation given an arbitrary operation).             *)

\* Where a public method begins.
EntryPoint(op) ==
    CASE op = "getToken" -> "getToken"
      [] op = "refundPaymentLegacy" -> "legacyParse"
      [] op \in DirectOps -> "directRequest"
      [] op = "handleWebhook" -> "handleWebhook"
      [] op = "verifyWebhookSignature" -> "verifyWebhookSignature"
      [] OTHER -> "invoke"

StartWith(op, args, valid, legacyValid, payload, signature, bound) ==
    /\ pc = "idle"
    /\ calls < bound
    /\ now <= MaxStartTime
    /\ calls' = calls + 1
    /\ call' = [op |-> op, args |-> args, valid |-> valid,
                legacyValid |-> legacyValid, payload |-> payload,
                signature |-> signature, tok0 |-> token, exp0 |-> tokenExpiry,
                t0 |-> now, seq0 |-> tokSeq]
    /\ frames' = IF op \in ServiceOps \/ op = "searchTransactionLegacy"
                 THEN <<Frame("op")>>
                 ELSE IF op = "retryOperation" THEN <<Frame("raw")>>
                 ELSE <<>>
    /\ pc' = EntryPoint(op)
    /\ thrown' = NoError
    /\ authToken' = NoToken
    /\ outcome' = NoOutcome
    /\ lastRetry' = NoRetry
    /\ validations' = 0
    /\ tokenReqs' = 0
    /\ apiReqs' = 0
    /\ events' = <<>>
    /\ sleeps' = <<>>
    /\ callbackRuns' = 0
    /\ serviceCalls' =
          IF op = "searchTransactionLegacy"
          THEN <<Delegate(op, args),
                 Delegate("searchTransaction", [trxID |-> args])>>
          ELSE <<Delegate(op, args)>>
    /\ responseData' = NoBody
    /\ result' = NoResult
    /\ eventData' = <<>>
    /\ tokenData' = NoTokenData
    /\ UNCHANGED <<cfgMaxRetries, cfgRetryDelay, token, tokenExpiry, now, tokSeq,
                   cfgSecret, cfgOnEvent, procs>>

\* A call of a method that takes one input, or none.
StartCall(op, valid, bound) ==
    StartWith(op, SampleInput(valid), valid, TRUE, <<>>, <<>>, bound)

\* refundPaymentLegacy(refundData): LegacyRefundDataSchema.parse runs
\* before anything else and outside any try block; then the converted
\* input goes to refundPayment.
LegacyParse ==
    /\ pc = "legacyParse"
    /\ validations' = validations + 1
    /\ IF call.legacyValid
       THEN /\ frames' = <<Frame("op")>>
            /\ pc' = "invoke"
            /\ serviceCalls' =
                  Append(serviceCalls,
                         Delegate("refundPayment", NewRefundData(serviceCalls[1].args)))
            /\ UNCHANGED outcome
       ELSE /\ outcome' = Rejected(Err("ZodError", "", <<>>, ErrId(0)))
            /\ pc' = "idle"
            /\ UNCHANGED <<frames, serviceCalls>>
    /\ UNCHANGED <<cfgMaxRetries, cfgRetryDelay, token, tokenExpiry, now, call,
                   thrown, authToken, lastRetry, tokenReqs, apiReqs, events,
                   sleeps, tokSeq, calls, cfgSecret, cfgOnEvent, callbackRuns,
                   procs>>
    /\ UNCHANGED <<responseData, result, eventData, tokenData>>

\* grantToken() / refreshToken(v) post their request.
DirectRequest ==
    /\ pc = "directRequest"
    /\ tokenReqs' = tokenReqs + 1
    /\ pc' = "directWait"
    /\ UNCHANGED <<cfgMaxRetries, cfgRetryDelay, token, tokenExpiry, now, call,
                   frames, thrown, authToken, outcome, lastRetry, validations,
                   apiReqs, events, sleeps, tokSeq, calls, cfgSecret,
                   cfgOnEvent, callbackRuns, procs>>
    /\ UNCHANGED <<serviceCalls, responseData, result, eventData, tokenData>>

\* grantToken() / refreshToken(v) caching what they received, as the
\* acquisition of getToken() does.
CacheStoresReceived(received, expiresIn) == <<received, ExpiryOf(now, expiresIn)>>

\* What grantToken() / refreshToken(v) do to the cache with the token they
\* received: nothing.
CacheAfterDirect(received, expiresIn) == <<token, tokenExpiry>>

\* The request of grantToken() / refreshToken(v) settles: response.data is
\* returned as it is, a failure is wrapped by the catch block.
DirectResponse(resp, expiresIn) ==
    /\ pc = "directWait"
    /\ resp # "ok" => expiresIn = {}
    /\ pc' = "idle"
    /\ IF resp \in {"ok", "noToken"}
       THEN /\ tokSeq' = IF resp = "ok" THEN tokSeq + 1 ELSE tokSeq
            /\ outcome' = Resolved(IF resp = "ok" THEN tokSeq + 1 ELSE NoToken)
            /\ token' = CacheAfterDirect(tokSeq', expiresIn)[1]
            /\ tokenExpiry' = CacheAfterDirect(tokSeq', expiresIn)[2]
       ELSE /\ outcome' = Rejected(BkashError(DirectErrorCode(call.op),
                                   ErrorDetails(AxiosError(resp, ErrId(1))),
                                   ErrId(2)))
            /\ UNCHANGED <<tokSeq, token, tokenExpiry>>
    /\ UNCHANGED <<cfgMaxRetries, cfgRetryDelay, now, call, frames, thrown,
                   authToken, lastRetry, validations, tokenReqs, apiReqs,
                   events, sleeps, calls, cfgSecret, cfgOnEvent, callbackRuns,
                   procs>>
    /\ UNCHANGED <<serviceCalls, responseData, result, eventData, tokenData>>

\* The loop of retryOperation never giving up.
LoopForever(attempt) == TRUE

\* The loop of retryOperation stopping one attempt early.
LoopStopsEarly(attempt) == attempt < MaxRetries

\* for (let attempt = 1; attempt <= this.maxRetries; attempt++)
LoopContinues(attempt) == attempt <= MaxRetries

\* if (attempt < this.maxRetries): warn and sleep before the next attempt
SleepsAfter(attempt) == attempt < MaxRetries

\* A pause of retryDelay whatever the attempt.
BackoffFlat(attempt) == RetryDelay

\* retryDelay * attempt
Backoff(attempt) == RetryDelay * attempt

\* retryOperation calls operation().  A service operation first parses its
\* input; the token acquisition posts the grant request.
\* An operation that goes on to the token manager whatever the parse said.
ParseIgnored(valid) == "getToken"

\* Schema.parse(input) is the first statement of the try block: when it
\* throws, the catch block is next; otherwise getToken().
AfterParse(valid) == IF valid THEN "getToken" ELSE "opCatch"

Invoke ==
    /\ pc = "invoke"
    /\ LoopContinues(Top.attempt)
    /\ frames' = SetTop([Top EXCEPT !.invoked = @ + 1])
    /\ \/ /\ Top.kind = "op"
          /\ validations' = validations + 1
          /\ pc' = AfterParse(call.valid)
          /\ thrown' = IF call.valid THEN thrown
                       ELSE Err("ZodError", "", <<>>, ErrId(1))
          /\ UNCHANGED tokenReqs
       \/ /\ Top.kind = "token"
          /\ tokenReqs' = tokenReqs + 1
          /\ pc' = "tokenWait"
          /\ UNCHANGED <<validations, thrown>>
       \/ /\ Top.kind = "raw"
          /\ pc' = "rawWait"
          /\ UNCHANGED <<validations, tokenReqs, thrown>>
    /\ UNCHANGED <<cfgMaxRetries, cfgRetryDelay, token, tokenExpiry, now, call,
                   authToken, outcome, lastRetry, apiReqs, events, sleeps,
                   tokSeq, calls>>
    /\ UNCHANGED <<cfgSecret, cfgOnEvent, callbackRuns, procs>>
    /\ UNCHANGED <<serviceCalls, responseData, result, eventData, tokenData>>

\* getToken(): the cached token while it is valid, else an acquisition
\* under retryOperation.
GetToken ==
    /\ pc = "getToken"
    /\ IF TokenValid(token, tokenExpiry, now)
       THEN /\ frames' = frames
            /\ IF frames = <<>>
               THEN outcome' = Resolved(token) /\ pc' = "idle" /\ authToken' = authToken
               ELSE outcome' = outcome /\ pc' = "apiRequest" /\ authToken' = token
       ELSE /\ frames' = Append(frames, Frame("token"))
            /\ pc' = "invoke"
            /\ UNCHANGED <<outcome, authToken>>
    /\ UNCHANGED <<cfgMaxRetries, cfgRetryDelay, token, tokenExpiry, now, call,
                   thrown, lastRetry, validations, tokenReqs, apiReqs, events,
                   sleeps, tokSeq, calls>>
    /\ UNCHANGED <<cfgSecret, cfgOnEvent, callbackRuns, procs>>
    /\ UNCHANGED <<serviceCalls, responseData, result, eventData, tokenData>>

\* The grant request settles.  With an id_token the cache is written and
\* the token returned; otherwise the catch block of the acquisition wraps
\* the failure into a TOKEN_ERROR.
TokenResponse(resp, expiresIn) ==
    /\ pc = "tokenWait"
    /\ resp # "ok" => expiresIn = {}
    /\ IF IdTokenPresent(resp)
       THEN /\ token' = IdToken(resp)
            /\ tokSeq' = IF resp = "ok" THEN tokSeq + 1 ELSE tokSeq
            /\ tokenExpiry' = ExpiryOf(now, expiresIn)
            /\ lastRetry' = Settled(Top, "resolved", NoError)
            /\ frames' = Pop
            /\ thrown' = thrown
            /\ IF Pop = <<>>
               THEN outcome' = Resolved(token') /\ pc' = "idle" /\ authToken' = authToken
               ELSE outcome' = outcome /\ pc' = "apiRequest" /\ authToken' = token'
       ELSE /\ thrown' =
                 IF resp = "noToken"
                 THEN BkashError("TOKEN_ERROR",
                                 ErrorDetails(BkashError("TOKEN_ERROR", <<>>, ErrId(1))),
                                 ErrId(2))
                 ELSE BkashError("TOKEN_ERROR",
                                 ErrorDetails(AxiosError(resp, ErrId(1))), ErrId(2))
            /\ pc' = "retryCatch"
            /\ UNCHANGED <<token, tokSeq, tokenExpiry, lastRetry, frames, outcome, authToken>>
    /\ tokenData' =
          IF resp \in {"ok", "noToken"} THEN GrantData(IdToken(resp), expiresIn)
          ELSE tokenData
    /\ UNCHANGED <<cfgMaxRetries, cfgRetryDelay, now, call, validations, tokenReqs,
                   apiReqs, events, sleeps, calls>>
    /\ UNCHANGED <<cfgSecret, cfgOnEvent, callbackRuns, procs>>
    /\ UNCHANGED <<serviceCalls, responseData, result, eventData>>

\* httpClient.post / get with the token in the Authorization header
ApiRequest ==
    /\ pc = "apiRequest"
    /\ apiReqs' = apiReqs + 1
    /\ pc' = "apiWait"
    /\ UNCHANGED <<cfgMaxRetries, cfgRetryDelay, token, tokenExpiry, now, call,
                   frames, thrown, authToken, outcome, lastRetry, validations,
                   tokenReqs, events, sleeps, tokSeq, calls>>
    /\ UNCHANGED <<cfgSecret, cfgOnEvent, callbackRuns, procs>>
    /\ UNCHANGED <<serviceCalls, responseData, result, eventData, tokenData>>

\* The API request settles.  On a response the operation emits its event
\* (a subscriber may throw out of emit) and returns response.data.
ApiResponse(resp, body, subscriberThrows) ==
    /\ pc = "apiWait"
    /\ LET ev == SuccessEvent(Inner(call.op), resp)
           args == Last(serviceCalls).args
       IN
       IF resp \in {"ok", "okFailed"}
       THEN /\ (ev = "" => ~subscriberThrows)
            /\ responseData' = body
            /\ events' = IF ev = "" THEN events ELSE Append(events, ev)
            /\ eventData' =
                  IF ev = "" THEN eventData
                  ELSE Append(eventData, EventSubject(Inner(call.op), args, body))
            /\ IF subscriberThrows
               THEN /\ thrown' = Err("SubscriberError", "", <<>>, ErrId(2))
                    /\ pc' = "opCatch"
                    /\ UNCHANGED <<frames, outcome, lastRetry, result>>
               ELSE /\ lastRetry' = Settled(Top, "resolved", NoError)
                    /\ frames' = Pop
                    /\ outcome' = Resolved(apiReqs)
                    /\ result' = ResultOf(call.op, serviceCalls[1].args, body)
                    /\ pc' = "idle"
                    /\ thrown' = thrown
       ELSE /\ ~subscriberThrows
            /\ thrown' = AxiosError(resp, ErrId(2))
            /\ pc' = "opCatch"
            /\ UNCHANGED <<events, frames, outcome, lastRetry, responseData,
                           result, eventData>>
    /\ UNCHANGED <<cfgMaxRetries, cfgRetryDelay, token, tokenExpiry, now, call,
                   authToken, validations, tokenReqs, apiReqs, sleeps, tokSeq,
                   calls>>
    /\ UNCHANGED <<cfgSecret, cfgOnEvent, callbackRuns, procs>>
    /\ UNCHANGED <<serviceCalls, tokenData>>

\* The catch block of a service operation: emit the failure event, if the
\* operation has one (a subscriber may throw out of emit), then throw a
\* BkashError with the operation's code.
OpCatch(subscriberThrows) ==
    /\ pc = "opCatch"
    /\ LET ev == FailureEvent(Inner(call.op)) IN
       /\ (ev = "" => ~subscriberThrows)
       /\ events' = IF ev = "" THEN events ELSE Append(events, ev)
       /\ eventData' =
             IF ev = "" THEN eventData
             ELSE Append(eventData,
                         EventSubject(Inner(call.op), Last(serviceCalls).args, NoBody))
       /\ thrown' = IF subscriberThrows
                    THEN Err("SubscriberError", "", <<>>, ErrId(3))
                    ELSE BkashError(ErrorCode(Inner(call.op)), ErrorDetails(thrown),
                                    ErrId(4))
    /\ pc' = "retryCatch"
    /\ UNCHANGED <<cfgMaxRetries, cfgRetryDelay, token, tokenExpiry, now, call,
                   frames, authToken, outcome, lastRetry, validations, tokenReqs,
                   apiReqs, sleeps, tokSeq, calls>>
    /\ UNCHANGED <<cfgSecret, cfgOnEvent, callbackRuns, procs>>
    /\ UNCHANGED <<serviceCalls, responseData, result, tokenData>>

\* retryOperation keeping the first error it caught instead of the last.
RememberFirst(lastError, error) == IF lastError = NoError THEN error ELSE lastError

\* lastError = error as Error
Remember(lastError, error) == error

\* The catch block of retryOperation: remember the error and, unless this
\* was the last attempt, sleep retryDelay * attempt; then the next round.
RetryCatch ==
    /\ pc = "retryCatch"
    /\ frames' = SetTop([Top EXCEPT !.lastError = Remember(@, thrown),
                                    !.caught = Append(@, thrown.id),
                                    !.attempt = @ + 1])
    /\ IF SleepsAfter(Top.attempt)
       THEN /\ sleeps' = Append(sleeps, Backoff(Top.attempt))
            /\ now' = now + Backoff(Top.attempt)
       ELSE UNCHANGED <<sleeps, now>>
    /\ thrown' = NoError
    /\ pc' = "invoke"
    /\ UNCHANGED <<cfgMaxRetries, cfgRetryDelay, token, tokenExpiry, call,
                   authToken, outcome, lastRetry, validations, tokenReqs, apiReqs,
                   events, tokSeq, calls>>
    /\ UNCHANGED <<cfgSecret, cfgOnEvent, callbackRuns, procs>>
    /\ UNCHANGED <<serviceCalls, responseData, result, eventData, tokenData>>

\* The loop of retryOperation is over: throw lastError.  Inside a service
\* operation the rejection of getToken lands in the operation's catch block.
RetryThrow ==
    /\ pc = "invoke"
    /\ ~LoopContinues(Top.attempt)
    /\ lastRetry' = Settled(Top, "rejected", Top.lastError)
    /\ frames' = Pop
    /\ IF Pop = <<>>
       THEN outcome' = Rejected(Top.lastError) /\ pc' = "idle" /\ thrown' = NoError
       ELSE outcome' = outcome /\ pc' = "opCatch" /\ thrown' = Top.lastError
    /\ UNCHANGED <<cfgMaxRetries, cfgRetryDelay, token, tokenExpiry, now, call,
                   authToken, validations, tokenReqs, apiReqs, events, sleeps,
                   tokSeq, calls>>
    /\ UNCHANGED <<cfgSecret, cfgOnEvent, callbackRuns, procs>>
    /\ UNCHANGED <<serviceCalls, responseData, result, eventData, tokenData>>

\* The arbitrary operation given to retryOperation settles.
RawSettle(ok) ==
    /\ pc = "rawWait"
    /\ IF ok
       THEN /\ lastRetry' = Settled(Top, "resolved", NoError)
            /\ outcome' = Resolved(Top.invoked)
            /\ frames' = Pop
            /\ pc' = "idle"
            /\ thrown' = thrown
       ELSE /\ thrown' = Err("Error", "", <<>>, ErrId(1))
            /\ pc' = "retryCatch"
            /\ UNCHANGED <<lastRetry, outcome, frames>>
    /\ UNCHANGED <<cfgMaxRetries, cfgRetryDelay, token, tokenExpiry, now, call,
                   authToken, validations, tokenReqs, apiReqs, events, sleeps,
                   tokSeq, calls>>
    /\ UNCHANGED <<cfgSecret, cfgOnEvent, callbackRuns, procs>>
    /\ UNCHANGED <<serviceCalls, responseData, result, eventData, tokenData>>

----------------------------------------------------------------------------
(* WebhookService.  A string is a sequence of one-character strings, a     *)
(* buffer a sequence of bytes.  A payload is given by the string that is   *)
(* signed: itself, or its JSON.stringify text when it is not a string.     *)

HexDigits == <<"0", "1", "2", "3", "4", "5", "6", "7",
               "8", "9", "a", "b", "c", "d", "e", "f">>

UpperHexDigits == <<"0", "1", "2", "3", "4", "5", "6", "7",
                    "8", "9", "A", "B", "C", "D", "E", "F">>

ByteRange == 256

\* Whether the hex decoder of Buffer.from reads c as a digit.
IsHexDigit(c) ==
    \E i \in 1..16 : HexDigits[i] = c \/ UpperHexDigits[i] = c

\* The value of a hex digit, in either case.
HexValue(c) ==
    (CHOOSE i \in 1..16 : HexDigits[i] = c \/ UpperHexDigits[i] = c) - 1

\* digest('hex'): two lower-case digits a byte.
RECURSIVE HexEncode(_)
HexEncode(bytes) ==
    IF bytes = <<>> THEN <<>>
    ELSE <<HexDigits[(bytes[1] \div 16) + 1], HexDigits[(bytes[1] % 16) + 1]>>
         \o HexEncode(Tail(bytes))

\* Buffer.from(str, 'hex'): a byte for every pair of hex digits, up to the
\* first pair that is not one (a trailing single character is dropped).
RECURSIVE HexDecode(_)
HexDecode(str) ==
    IF Len(str) < 2 \/ ~IsHexDigit(str[1]) \/ ~IsHexDigit(str[2]) THEN <<>>
    ELSE <<HexValue(str[1]) * 16 + HexValue(str[2])>>
         \o HexDecode(SubSeq(str, 3, Len(str)))

\* The characters payloads are made of, and their codes.
PayloadChars == {"a", "b"}

CharCode(c) == IF c = "a" THEN 1 ELSE 2

\* The keyed digest standing for HMAC-SHA256: DigestLen bytes computed
\* from the secret and every character of the payload, different for
\* different payloads and for different secrets of the model.
RECURSIVE Absorb(_, _)
Absorb(h, payload) ==
    IF payload = <<>> THEN h
    ELSE Absorb(h * 3 + CharCode(payload[1]), Tail(payload))

\* crypto.createHmac('sha256', secret).update(payload).digest()
Hmac(secret, payload) ==
    [i \in 1..DigestLen |->
        ((Absorb(0, payload) + 41 * secret) * (2 * i - 1)) % ByteRange]

\* crypto.timingSafeEqual on buffers of one length
TimingSafeEqual(a, b) == a = b

\* A comparison that looks at the first byte only.
FirstByteEqual(a, b) == a = <<>> \/ a[1] = b[1]

\* verifyWebhookSignature(payload, signature) with the secret configured
VerifyWebhookSignature(secret, payload, signature) ==
    LET expectedSignature == HexEncode(Hmac(secret, payload))
        expectedBuffer == HexDecode(expectedSignature)
        actualBuffer == HexDecode(signature)
    IN  IF Len(expectedBuffer) # Len(actualBuffer) THEN FALSE
        ELSE TimingSafeEqual(expectedBuffer, actualBuffer)

\* verifyWebhookSignature called by the client's user: it throws when no
\* secret is configured.
VerifyCall ==
    /\ pc = "verifyWebhookSignature"
    /\ pc' = "idle"
    /\ outcome' =
          IF cfgSecret = NoSecret
          THEN Rejected(BkashError("WEBHOOK_SECRET_MISSING", <<>>, ErrId(1)))
          ELSE Resolved(VerifyWebhookSignature(cfgSecret, call.payload,
                                               call.signature))
    /\ UNCHANGED <<cfgMaxRetries, cfgRetryDelay, token, tokenExpiry, now, call,
                   frames, thrown, authToken, lastRetry, validations,
                   tokenReqs, apiReqs, events, sleeps, tokSeq, calls,
                   cfgSecret, cfgOnEvent, callbackRuns, procs>>
    /\ UNCHANGED <<serviceCalls, responseData, result, eventData, tokenData>>

\* handleWebhook letting a payload without signature through.
RefusalOnlyOfBadSignature(secret, payload, signature) ==
    IF secret = NoSecret \/ signature = <<>> THEN ""
    ELSE IF ~VerifyWebhookSignature(secret, payload, signature)
         THEN "WEBHOOK_SIGNATURE_INVALID"
    ELSE ""

\* if (this.config.webhook?.secret) { if (!signature) throw ...;
\*   if (!this.verifyWebhookSignature(payloadString, signature)) throw ... }
\* The code handleWebhook refuses the payload with ("" when it accepts it).
\* An absent signature and the empty string are both <<>>.
Refusal(secret, payload, signature) ==
    IF secret = NoSecret THEN ""
    ELSE IF signature = <<>> THEN "WEBHOOK_SIGNATURE_MISSING"
    ELSE IF ~VerifyWebhookSignature(secret, payload, signature)
         THEN "WEBHOOK_SIGNATURE_INVALID"
    ELSE ""

\* this.config.webhook.onEvent(event)
OnEventCall(event) == [service |-> "config.webhook", method |-> "onEvent", args |-> event]

\* handleWebhook(payload, signature) up to its await: the signature check,
\* the emit of the payload as an event (a subscriber may throw out of
\* emit) and the call of config.webhook.onEvent.
HandleWebhook(subscriberThrows) ==
    /\ pc = "handleWebhook"
    /\ LET code == Refusal(cfgSecret, call.payload, call.signature) IN
       IF code # ""
       THEN /\ ~subscriberThrows
            /\ outcome' = Rejected(BkashError(code, <<>>, ErrId(1)))
            /\ pc' = "idle"
            /\ UNCHANGED <<events, eventData, callbackRuns, serviceCalls>>
       ELSE /\ events' = Append(events, "webhook")
            /\ eventData' = Append(eventData, call.payload)
            /\ IF subscriberThrows
               THEN /\ outcome' = Rejected(Err("SubscriberError", "", <<>>, ErrId(2)))
                    /\ pc' = "idle"
                    /\ UNCHANGED <<callbackRuns, serviceCalls>>
               ELSE IF cfgOnEvent
               THEN /\ callbackRuns' = callbackRuns + 1
                    /\ serviceCalls' = Append(serviceCalls, OnEventCall(call.payload))
                    /\ pc' = "onEvent"
                    /\ UNCHANGED outcome
               ELSE /\ outcome' = Resolved(0)
                    /\ pc' = "idle"
                    /\ UNCHANGED <<callbackRuns, serviceCalls>>
    /\ UNCHANGED <<cfgMaxRetries, cfgRetryDelay, token, tokenExpiry, now, call,
                   frames, thrown, authToken, lastRetry, validations,
                   tokenReqs, apiReqs, sleeps, tokSeq, calls, cfgSecret,
                   cfgOnEvent, procs>>
    /\ UNCHANGED <<responseData, result, tokenData>>

\* await this.config.webhook.onEvent(event) settles.
OnEventSettles(ok) ==
    /\ pc = "onEvent"
    /\ pc' = "idle"
    /\ outcome' = IF ok THEN Resolved(0)
                  ELSE Rejected(Err("CallbackError", "", <<>>, ErrId(3)))
    /\ UNCHANGED <<cfgMaxRetries, cfgRetryDelay, token, tokenExpiry, now, call,
                   frames, thrown, authToken, lastRetry, validations,
                   tokenReqs, apiReqs, events, sleeps, tokSeq, calls,
                   cfgSecret, cfgOnEvent, callbackRuns, procs>>
    /\ UNCHANGED <<serviceCalls, responseData, result, eventData, tokenData>>

\* A clearToken() that forgets the token and keeps its expiry.
ClearedTokenOnly == <<NoToken, tokenExpiry>>

\* this.token = null; this.tokenExpiry = null
ClearedCache == <<NoToken, NoExpiry>>

\* clearToken()
ClearToken(bound) ==
    /\ pc = "idle"
    /\ calls < bound
    /\ calls' = calls + 1
    /\ token' = ClearedCache[1]
    /\ tokenExpiry' = ClearedCache[2]
    /\ UNCHANGED <<cfgMaxRetries, cfgRetryDelay, now, pc, call, frames, thrown,
                   authToken, outcome, lastRetry, validations, tokenReqs, apiReqs,
                   events, sleeps, tokSeq>>
    /\ UNCHANGED <<cfgSecret, cfgOnEvent, callbackRuns, procs>>
    /\ UNCHANGED <<serviceCalls, responseData, result, eventData, tokenData>>

\* Time passes between calls: by half a second, or until the cached
\* token's expiry.  The code reads the clock only to compare it with the
\* expiry of a cached token, so time is let pass once a token is cached.
TickTargets ==
    {now + 500} \cup (IF tokenExpiry > now THEN {tokenExpiry} ELSE {})

Tick(t) ==
    /\ pc = "idle"
    /\ token # NoToken
    /\ now <= MaxStartTime
    /\ now' = t
    /\ UNCHANGED <<cfgMaxRetries, cfgRetryDelay, token, tokenExpiry, pc, call,
                   frames, thrown, authToken, outcome, lastRetry, validations,
                   tokenReqs, apiReqs, events, sleeps, tokSeq, calls>>
    /\ UNCHANGED <<cfgSecret, cfgOnEvent, callbackRuns, procs>>
    /\ UNCHANGED <<serviceCalls, responseData, result, eventData, tokenData>>

Steps ==
    \/ Invoke
    \/ GetToken
    \/ \E resp \in TokenResponses, expiresIn \in ExpiresIn : TokenResponse(resp, expiresIn)
    \/ ApiRequest
    \/ \E resp \in ApiResponses, subscriberThrows \in BOOLEAN :
          \E body \in UsualBodies(Inner(call.op), resp, apiReqs) :
             ApiResponse(resp, body, subscriberThrows)
    \/ \E subscriberThrows \in BOOLEAN : OpCatch(subscriberThrows)
    \/ RetryCatch
    \/ RetryThrow
    \/ \E t \in TickTargets : Tick(t)

\* The inputs of refundPaymentLegacy: rejected by LegacyRefundDataSchema;
\* accepted by it but, once converted, rejected by RefundDataSchema (an
\* amount of more than two decimals); accepted by both.
LegacyInputs ==
    {[paymentId |-> "", transactionId |-> "TRX", amount |-> Amount(<<2, 5, 5>>, 2),
      reason |-> {}],
     [paymentId |-> "PAY", transactionId |-> "TRX",
      amount |-> Amount(<<2, 5, 5, 5, 5>>, 2), reason |-> {}],
     [paymentId |-> "PAY", transactionId |-> "TRX", amount |-> Amount(<<2, 5, 5>>, 2),
      reason |-> {}]}

\* refundPaymentLegacy(refundData) is called.
StartLegacyRefund(refundData, bound) ==
    StartWith("refundPaymentLegacy", refundData,
              LegacyRefundDataValid(refundData)
                  /\ RefundDataValid(NewRefundData(refundData)),
              LegacyRefundDataValid(refundData), <<>>, <<>>, bound)

DirectSteps ==
    \/ LegacyParse
    \/ DirectRequest
    \/ \E resp \in TokenResponses, expiresIn \in ExpiresIn :
          DirectResponse(resp, expiresIn)

Next ==
    \/ \E op \in ServiceOps, valid \in BOOLEAN : StartCall(op, valid, MaxCalls)
    \/ \E valid \in BOOLEAN : StartCall("searchTransactionLegacy", valid, MaxCalls)
    \/ \E refundData \in LegacyInputs : StartLegacyRefund(refundData, MaxCalls)
    \/ \E op \in DirectOps : StartCall(op, TRUE, MaxCalls)
    \/ StartCall("getToken", TRUE, MaxCalls)
    \/ ClearToken(MaxCalls)
    \/ Steps
    \/ DirectSteps

Spec == Init /\ [][Next]_vars

\* The webhook secrets of the model.
Secrets == {1, 2}

RECURSIVE StringsUpTo(_)
StringsUpTo(n) ==
    IF n = 0 THEN {<<>>}
    ELSE LET shorter == StringsUpTo(n - 1) IN
         shorter \cup {Append(str, c) : str \in shorter, c \in PayloadChars}

Payloads == StringsUpTo(MaxPayloadLen)

\* The characters a caller may put into a signature: the hex digits in
\* both cases and a character that is no hex digit.
SigChars ==
    {HexDigits[i] : i \in 1..16} \cup {UpperHexDigits[i] : i \in 1..16} \cup {"g"}

\* The signatures a caller may supply with a payload: none; the hex
\* HMAC-SHA256 of any payload under any secret; such a signature of this
\* payload with one character replaced, with its last character dropped,
\* or with one character added.
Signatures(payload) ==
    LET digests == {HexEncode(Hmac(s, p)) : s \in Secrets, p \in Payloads}
        own == {HexEncode(Hmac(s, payload)) : s \in Secrets}
    IN  {<<>>} \cup digests
        \cup {[sig EXCEPT ![i] = c] : sig \in own, i \in 1..(2 * DigestLen),
                                     c \in SigChars}
        \cup {SubSeq(sig, 1, Len(sig) - 1) : sig \in own}
        \cup {Append(sig, "0") : sig \in own}

\* A client without config.webhook, or with one: WebhookConfigSchema asks
\* for a secret of at least one character and lets onEvent be absent.
WebhookInit ==
    /\ cfgMaxRetries = Unset
    /\ cfgRetryDelay = Unset
    /\ cfgSecret \in {NoSecret} \cup Secrets
    /\ cfgOnEvent \in (IF cfgSecret = NoSecret THEN {FALSE} ELSE BOOLEAN)
    /\ Fresh

\* The webhook service on its own: handleWebhook and verifyWebhookSignature.
\* The service keeps no state from one call to the next, so every
\* behaviour is one call on a client just built.
WebhookNext ==
    \/ /\ pc = "idle"
       /\ calls = 0
       /\ \E op \in {"handleWebhook", "verifyWebhookSignature"},
             payload \in Payloads :
             \E signature \in Signatures(payload) :
                StartWith(op, <<payload, signature>>, TRUE, TRUE, payload,
                          signature, 1)
    \/ VerifyCall
    \/ \E subscriberThrows \in BOOLEAN : HandleWebhook(subscriberThrows)
    \/ \E ok \in BOOLEAN : OnEventSettles(ok)

WebhookSpec == WebhookInit /\ [][WebhookNext]_vars

----------------------------------------------------------------------------
(* refundPaymentLegacy on its own, with the inputs and the refund          *)
(* responses spelled out.  The refund service keeps nothing from one call  *)
(* to the next but the token cache, so every behaviour is one call.        *)

\* The amounts of the model: 25.5, 100, 25.555, 0.5, 0.05, 1e21, 1.5e21,
\* 1e-7 and 1.5e-7, which are positive, and 0 and -5, which are not.
Amounts ==
    {Amount(<<2, 5, 5>>, 2), Amount(<<1>>, 3), Amount(<<2, 5, 5, 5, 5>>, 2),
     Amount(<<5>>, 0), Amount(<<5>>, -1), Amount(<<1>>, 22), Amount(<<1, 5>>, 22),
     Amount(<<1>>, -6), Amount(<<1, 5>>, -6),
     [sign |-> 0, digits |-> <<0>>, point |-> 1],
     [sign |-> -1, digits |-> <<5>>, point |-> 1]}

\* The reasons of the model: none, the empty string, a text.
Reasons == {{}, {""}, {"Damaged item"}}

LegacyRefundData ==
    [paymentId : {"", "PAY"}, transactionId : {"", "TRX"}, amount : Amounts,
     reason : Reasons]

LegacyNext ==
    \/ /\ calls = 0
       /\ \E refundData \in LegacyRefundData : StartLegacyRefund(refundData, 1)
    \/ LegacyParse
    \/ Invoke
    \/ GetToken
    \/ \E resp \in TokenResponses, expiresIn \in ExpiresIn : TokenResponse(resp, expiresIn)
    \/ ApiRequest
    \/ \E resp \in ApiResponses, subscriberThrows \in BOOLEAN :
          \E body \in Bodies(Inner(call.op), resp, apiReqs) :
             ApiResponse(resp, body, subscriberThrows)
    \/ \E subscriberThrows \in BOOLEAN : OpCatch(subscriberThrows)
    \/ RetryCatch
    \/ RetryThrow

LegacySpec == Init /\ [][LegacyNext]_vars

----------------------------------------------------------------------------
(* One payment from its creation on: the caller awaits createPayment and   *)
(* then executes or verifies the payment it was given, while other         *)
(* operations of the same client, about other payments, publish their      *)
(* events whenever this caller is waiting.  The histories of the model     *)
(* (events, requests, sleeps) run on from the first call into the second.  *)
(* The token endpoint answers with a token of the default lifetime; its    *)
(* failures and short lifetimes are the subject of Spec and TokenSpec.     *)

\* The most events other operations publish in one behaviour.
MaxOtherEvents == 1

\* A payment of another operation.
OtherPayment == -1

\* const payment = await createPayment(data); then op(payment.paymentID)
\* for op executePayment or verifyPayment.
ThenCall(op) ==
    /\ pc = "idle"
    /\ call.op = "createPayment"
    /\ outcome.status = "resolved"
    /\ calls' = calls + 1
    /\ call' = [call EXCEPT !.op = op, !.args = result.paymentID,
                            !.valid = (result.paymentID # NoPayment),
                            !.tok0 = token, !.exp0 = tokenExpiry, !.t0 = now,
                            !.seq0 = tokSeq]
    /\ serviceCalls' = Append(serviceCalls, Delegate(op, result.paymentID))
    /\ frames' = <<Frame("op")>>
    /\ pc' = EntryPoint(op)
    /\ outcome' = NoOutcome
    /\ lastRetry' = NoRetry
    /\ UNCHANGED <<cfgMaxRetries, cfgRetryDelay, token, tokenExpiry, now, thrown,
                   authToken, validations, tokenReqs, apiReqs, events, sleeps,
                   tokSeq, cfgSecret, cfgOnEvent, callbackRuns, procs,
                   responseData, result, eventData, tokenData>>

\* While this caller waits (for a response, or between its two calls),
\* another operation emits an event about its own payment.
OtherEmits(type) ==
    /\ pc \in {"idle", "tokenWait", "apiWait"}
    /\ Count(eventData, {OtherPayment}) < MaxOtherEvents
    /\ events' = Append(events, type)
    /\ eventData' = Append(eventData, OtherPayment)
    /\ UNCHANGED <<cfgMaxRetries, cfgRetryDelay, token, tokenExpiry, now, pc, call,
                   frames, thrown, authToken, outcome, lastRetry, validations,
                   tokenReqs, apiReqs, sleeps, tokSeq, calls, cfgSecret,
                   cfgOnEvent, callbackRuns, procs, serviceCalls, responseData,
                   result, tokenData>>

LifecycleNext ==
    \/ /\ calls = 0
       /\ \E valid \in BOOLEAN : StartCall("createPayment", valid, 1)
    \/ \E op \in {"executePayment", "verifyPayment"} : ThenCall(op)
    \/ \E type \in {"payment.created", "payment.success", "payment.failed"} :
          OtherEmits(type)
    \/ Invoke
    \/ GetToken
    \/ TokenResponse("ok", {})
    \/ ApiRequest
    \/ \E resp \in ApiResponses, subscriberThrows \in BOOLEAN :
          \E body \in Bodies(Inner(call.op), resp, apiReqs) :
             ApiResponse(resp, body, subscriberThrows)
    \/ \E subscriberThrows \in BOOLEAN : OpCatch(subscriberThrows)
    \/ RetryCatch
    \/ RetryThrow

LifecycleSpec == Init /\ [][LifecycleNext]_vars

----------------------------------------------------------------------------
(* Two callers of getToken() on one TokenManager.  A caller runs without   *)
(* interruption from one await to the next: from the call to the grant     *)
(* request, from the response to its return or to its backoff sleep, from  *)
(* the end of the sleep to the next request.                               *)

concOther == <<cfgMaxRetries, cfgRetryDelay, pc, call, frames, thrown, authToken,
               outcome, lastRetry, validations, tokenReqs, apiReqs, events,
               sleeps, cfgSecret, cfgOnEvent, callbackRuns, serviceCalls,
               responseData, result, eventData>>

\* getToken() is called: the cached token while it is valid, else the
\* first grant request of an acquisition.
ConcCall(p) ==
    /\ procs[p].pc \in {"idle", "done"}
    /\ calls < MaxLeafCalls
    /\ now <= MaxStartTime
    /\ calls' = calls + 1
    /\ LET begun == [IdleProc EXCEPT
                        !.seq0 = tokSeq,
                        !.overlap = \E q \in Procs \ {p} :
                                       procs[q].pc \in {"wait", "sleep"}]
       IN  procs' = [procs EXCEPT ![p] =
              IF TokenValid(token, tokenExpiry, now)
              THEN [begun EXCEPT !.pc = "done", !.status = "resolved",
                                 !.result = token, !.expiry = tokenExpiry,
                                 !.doneAt = now]
              ELSE [begun EXCEPT !.pc = "wait"]]
    /\ UNCHANGED <<token, tokenExpiry, tokSeq, now, tokenData>>
    /\ UNCHANGED concOther

\* A caller's grant request settles: with an id_token the cache is
\* written and the token returned; otherwise retryOperation sleeps before
\* the next attempt, or gives up after the last.
ConcResponse(p, resp, expiresIn) ==
    /\ procs[p].pc = "wait"
    /\ resp # "ok" => expiresIn = {}
    /\ IF IdTokenPresent(resp)
       THEN /\ token' = IdToken(resp)
            /\ tokSeq' = IF resp = "ok" THEN tokSeq + 1 ELSE tokSeq
            /\ tokenExpiry' = ExpiryOf(now, expiresIn)
            /\ procs' = [procs EXCEPT ![p] =
                  [@ EXCEPT !.pc = "done", !.status = "resolved",
                            !.acquired = token', !.result = token',
                            !.expiry = tokenExpiry', !.doneAt = now]]
       ELSE /\ procs' = [procs EXCEPT ![p] =
                  IF SleepsAfter(@.attempt)
                  THEN [@ EXCEPT !.pc = "sleep", !.attempt = @ + 1,
                                 !.wakeAt = now + Backoff(procs[p].attempt)]
                  ELSE [@ EXCEPT !.pc = "done", !.attempt = @ + 1,
                                 !.status = "rejected", !.doneAt = now]]
            /\ UNCHANGED <<token, tokSeq, tokenExpiry>>
    /\ tokenData' =
          IF resp \in {"ok", "noToken"} THEN GrantData(IdToken(resp), expiresIn)
          ELSE tokenData
    /\ UNCHANGED <<now, calls>>
    /\ UNCHANGED concOther

\* A caller's backoff sleep is over: the next attempt posts its request.
ConcWake(p) ==
    /\ procs[p].pc = "sleep"
    /\ now >= procs[p].wakeAt
    /\ LoopContinues(procs[p].attempt)
    /\ procs' = [procs EXCEPT ![p] = [@ EXCEPT !.pc = "wait"]]
    /\ UNCHANGED <<token, tokenExpiry, tokSeq, now, calls, tokenData>>
    /\ UNCHANGED concOther

\* Time passes: by half a second, until the cached token's expiry or
\* until the end of a caller's sleep.
ConcTickTargets ==
    {now + 500}
    \cup (IF tokenExpiry > now THEN {tokenExpiry} ELSE {})
    \cup {procs[p].wakeAt : p \in {q \in Procs : /\ procs[q].pc = "sleep"
                                                 /\ procs[q].wakeAt > now}}

ConcTick(t) ==
    /\ now <= MaxStartTime
    /\ \E p \in Procs : procs[p].pc # "idle"
    /\ now' = t
    /\ UNCHANGED <<token, tokenExpiry, tokSeq, calls, procs, tokenData>>
    /\ UNCHANGED concOther

ConcNext ==
    \/ \E p \in Procs : ConcCall(p)
    \/ \E p \in Procs, resp \in TokenResponses, expiresIn \in ExpiresIn :
          ConcResponse(p, resp, expiresIn)
    \/ \E p \in Procs : ConcWake(p)
    \/ \E t \in ConcTickTargets : ConcTick(t)

ConcSpec == Init /\ [][ConcNext]_vars

\* clearToken() while callers of getToken() are waiting or sleeping.
ConcClearToken ==
    /\ calls < MaxLeafCalls
    /\ calls' = calls + 1
    /\ token' = ClearedCache[1]
    /\ tokenExpiry' = ClearedCache[2]
    /\ UNCHANGED <<tokSeq, now, procs, tokenData>>
    /\ UNCHANGED concOther

\* grantToken() or refreshToken(v) is called while callers of getToken()
\* are waiting or sleeping.
ConcDirectCall(op) ==
    /\ pc = "idle"
    /\ calls < MaxLeafCalls
    /\ calls' = calls + 1
    /\ call' = [call EXCEPT !.op = op]
    /\ pc' = EntryPoint(op)
    /\ outcome' = NoOutcome
    /\ tokenReqs' = 0
    /\ UNCHANGED <<cfgMaxRetries, cfgRetryDelay, token, tokenExpiry, now, frames,
                   thrown, authToken, lastRetry, validations, apiReqs, events,
                   sleeps, tokSeq, cfgSecret, cfgOnEvent, callbackRuns, procs,
                   serviceCalls, responseData, result, eventData, tokenData>>

\* The most calls of one behaviour of ManagerSpec.
MaxManagerCalls == 3

\* The token manager shared by the services: the two callers of
\* getToken(), a caller of grantToken() and refreshToken(v), whose position
\* is pc, and clearToken(), interleaved at every await.
ManagerNext ==
    /\ \/ ConcNext
       \/ ConcClearToken
       \/ \E op \in DirectOps : ConcDirectCall(op)
       \/ DirectRequest
       \/ \E resp \in TokenResponses, expiresIn \in ExpiresIn :
             DirectResponse(resp, expiresIn)
    /\ calls' <= MaxManagerCalls

ManagerSpec == Init /\ [][ManagerNext]_vars

\* The retry executor on its own: retryOperation given an arbitrary operation.
RetryNext ==
    \/ StartCall("retryOperation", TRUE, MaxLeafCalls)
    \/ Invoke
    \/ \E ok \in BOOLEAN : RawSettle(ok)
    \/ RetryCatch
    \/ RetryThrow

RetrySpec == LeafInit /\ [][RetryNext]_vars

\* The lifetimes the grant endpoint may declare to the token manager on
\* its own: none, one second, and none at all left (0).
Lifetimes == ExpiresIn \cup {{0}}

\* The token manager on its own: getToken, grantToken, refreshToken and
\* clearToken.
TokenNext ==
    \/ StartCall("getToken", TRUE, MaxLeafCalls)
    \/ \E op \in DirectOps : StartCall(op, TRUE, MaxLeafCalls)
    \/ DirectRequest
    \/ \E resp \in TokenResponses, expiresIn \in ExpiresIn :
          DirectResponse(resp, expiresIn)
    \/ ClearToken(MaxLeafCalls)
    \/ Invoke
    \/ GetToken
    \/ \E resp \in TokenResponses, expiresIn \in Lifetimes : TokenResponse(resp, expiresIn)
    \/ RetryCatch
    \/ RetryThrow
    \/ \E t \in TickTargets : Tick(t)

TokenSpec == LeafInit /\ [][TokenNext]_vars

----------------------------------------------------------------------------
(* One call of a request service, of the token manager or of              *)
(* retryOperation under the event loop: whenever the awaited request,      *)
(* sleep or operation has settled, the continuation of the running call is *)
(* run.  The later attempts of the call meet the cache its earlier         *)
(* attempts left: empty, holding a live token, holding an expired one.     *)

\* The steps of a running call.
Running ==
    \/ LegacyParse
    \/ DirectRequest
    \/ \E resp \in TokenResponses, expiresIn \in ExpiresIn :
          DirectResponse(resp, expiresIn)
    \/ Invoke
    \/ GetToken
    \/ \E resp \in TokenResponses, expiresIn \in ExpiresIn : TokenResponse(resp, expiresIn)
    \/ ApiRequest
    \/ \E resp \in ApiResponses, subscriberThrows \in BOOLEAN :
          \E body \in UsualBodies(Inner(call.op), resp, apiReqs) :
             ApiResponse(resp, body, subscriberThrows)
    \/ \E subscriberThrows \in BOOLEAN : OpCatch(subscriberThrows)
    \/ RetryCatch
    \/ RetryThrow
    \/ \E ok \in BOOLEAN : RawSettle(ok)

LiveNext ==
    \/ /\ calls = 0
       /\ \/ \E op \in ServiceOps \cup {"searchTransactionLegacy"}, valid \in BOOLEAN :
                StartCall(op, valid, 1)
          \/ \E refundData \in LegacyInputs : StartLegacyRefund(refundData, 1)
          \/ \E op \in DirectOps \cup {"getToken", "retryOperation"} :
                StartCall(op, TRUE, 1)
    \/ Running

LiveSpec == Init /\ [][LiveNext]_vars /\ WF_vars(Running)

----------------------------------------------------------------------------
(* Properties *)


Distinct(seq) == \A i, j \in 1..Len(seq) : i # j => seq[i] # seq[j]

\* The number of attempts the configuration asks for.
ConfiguredAttempts == IF cfgMaxRetries = Unset THEN 3 ELSE cfgMaxRetries

\* C1: retryOperation invokes the operation at most maxAttempts times (3
\* when maxRetries is not configured).  When it resolves, every invocation
\* but the last one failed and the value is that of the last invocation, so
\* the operation was not invoked again after its first success; when it
\* rejects, the operation was invoked exactly maxAttempts times.
C1_AttemptsBounded ==
    /\ \A i \in 1..Len(frames) : frames[i].invoked <= ConfiguredAttempts
    /\ lastRetry.status = "resolved" =>
          /\ lastRetry.invoked <= ConfiguredAttempts
          /\ Len(lastRetry.caught) = lastRetry.invoked - 1
          /\ outcome = Resolved(lastRetry.invoked)
    /\ lastRetry.status = "rejected" =>
          /\ lastRetry.invoked = ConfiguredAttempts
          /\ Len(lastRetry.caught) = ConfiguredAttempts

\* C1 witness: with maxRetries not configured, an operation that failed
\* three times and was then given up.
C1_Witness ==
    /\ cfgMaxRetries = Unset
    /\ lastRetry.kind = "raw"
    /\ lastRetry.status = "rejected"
    /\ lastRetry.invoked = 3

\* C2: when every attempt failed, retryOperation rejects with the very
\* error the last invocation threw: the same object (its identity is that
\* of the last error caught, which is none of the earlier ones) and not a
\* wrapper around it.
C2_LastErrorUnchanged ==
    lastRetry.status = "rejected" =>
        /\ Distinct(lastRetry.caught)
        /\ lastRetry.error = Err("Error", "", <<>>, Last(lastRetry.caught))
        /\ outcome = Rejected(lastRetry.error)

\* C2 witness: a rejection after at least two failed attempts.
C2_Witness ==
    /\ lastRetry.status = "rejected"
    /\ Len(lastRetry.caught) >= 2
    /\ outcome.status = "rejected"

\* The cache the running getToken() call met was live: a token with
\* now < expiresAt.
MetLiveToken == call.tok0 # NoToken /\ call.exp0 # NoExpiry /\ call.t0 < call.exp0

GetTokenSettled == call.op = "getToken" /\ pc = "idle"

\* C3: a getToken() call made while a token is cached and now < expiresAt
\* issues no acquisition request and returns the cached token; a
\* getToken() call made after expiry was forced (clearToken, or the clock
\* reaching expiresAt) whose acquisition request is answered with a token
\* issues exactly one acquisition request.
C3_CachedTokenReused ==
    GetTokenSettled =>
        /\ MetLiveToken => tokenReqs = 0 /\ outcome = Resolved(call.tok0)
        /\ (~MetLiveToken /\ outcome.status = "resolved" /\ sleeps = <<>>) =>
              tokenReqs = 1

\* C3 witness: the third getToken() of one token manager: the first
\* acquired token 1, the second reused it, and the third, made when the
\* clock had reached the expiry of token 1, acquired token 2 with one
\* request.
C3_Witness ==
    /\ GetTokenSettled
    /\ calls = 3
    /\ call.tok0 = 1
    /\ call.t0 >= call.exp0
    /\ tokenReqs = 1
    /\ tokSeq = 2
    /\ outcome = Resolved(2)

\* C4: getToken() resolves without an acquisition only if the cache held a
\* token with now < expiresAt when it was called, and then with that
\* token; in every other case (empty cache, or now >= expiresAt) it
\* resolves only after an acquisition, with the token that acquisition
\* was issued, which is then the cached one.
C4_NeverPastExpiry ==
    (GetTokenSettled /\ outcome.status = "resolved") =>
        IF tokenReqs = 0
        THEN MetLiveToken /\ outcome.value = call.tok0
        ELSE /\ ~MetLiveToken
             /\ outcome.value > call.seq0
             /\ outcome.value = tokSeq
             /\ outcome.value # call.tok0

\* C4 witness: getToken() called at the very instant the cached token
\* expires (now = expiresAt) acquired a fresh token.
C4_Witness ==
    /\ GetTokenSettled
    /\ call.tok0 # NoToken
    /\ call.t0 = call.exp0
    /\ outcome.status = "resolved"
    /\ tokenReqs >= 1

\* C5: one service operation issues at most maxAttempts token acquisition
\* requests and at most maxAttempts API requests.
C5_SingleRetryBudget ==
    call.op \in ServiceOps =>
        tokenReqs <= ConfiguredAttempts /\ apiReqs <= ConfiguredAttempts

\* C6: with an input that fails schema validation the call rejects
\* immediately: validation runs once, the operation is attempted once and
\* no backoff sleep is requested.
C6_ValidationRejectsAtOnce ==
    (call.op \in ServiceOps /\ ~call.valid) =>
        /\ validations <= 1
        /\ sleeps = <<>>
        /\ \A i \in 1..Len(frames) : frames[i].invoked <= 1

FailureEvents == {"payment.failed", "refund.failed", "refund.status.failed"}

\* C7: an event-publishing operation that failed on all its attempts has
\* published exactly one failure event by the time it rejects.
C7_OneFailureEvent ==
    ( /\ call.op \in {"executePayment", "verifyPayment", "refundPayment",
                      "checkRefundStatus", "createPayment"}
      /\ call.valid
      /\ outcome.status = "rejected" ) =>
        Count(events, FailureEvents) = 1

\* The code the spec gives each operation's ClassifiedError.
OwnCode ==
    [ createPayment |-> "PAYMENT_CREATE_ERROR",
      createPaymentFull |-> "PAYMENT_CREATE_ERROR",
      executePayment |-> "PAYMENT_EXECUTE_ERROR",
      verifyPayment |-> "PAYMENT_VERIFY_ERROR",
      queryPayment |-> "PAYMENT_QUERY_ERROR",
      checkTransactionStatus |-> "TRANSACTION_STATUS_ERROR",
      searchTransaction |-> "SEARCH_ERROR",
      refundPayment |-> "REFUND_ERROR",
      checkRefundStatus |-> "REFUND_STATUS_ERROR" ]

\* C8: a service operation that failed on all its attempts rejects with a
\* BkashError whose code is the operation's own.
C8_OwnErrorCode ==
    (call.op \in ServiceOps /\ call.valid /\ outcome.status = "rejected") =>
        /\ outcome.error.kind = "BkashError"
        /\ outcome.error.code = OwnCode[call.op]

\* C9: a createPayment call that resolved has published exactly one
\* payment.created event, and one that rejected has published none.
C9_CreatedEventOnce ==
    (call.op = "createPayment" /\ call.valid) =>
        /\ outcome.status = "resolved" => Count(events, {"payment.created"}) = 1
        /\ outcome.status = "rejected" => Count(events, {"payment.created"}) = 0

\* The error is a subscriber's exception, or wraps one.
FromSubscriber(e) ==
    \/ e.kind = "SubscriberError"
    \/ e.details # <<>> /\ e.details[1].kind = "SubscriberError"

\* C10: the exception of a subscriber never enters the request service:
\* it is not the error in flight, not the error an attempt is remembered
\* by and not what the call rejects with; and the call settles as it does
\* with a subscriber that does not throw, so once it has published the
\* event of a successful response it has resolved with that response.
C10_SubscriberIsolated ==
    /\ ~FromSubscriber(thrown)
    /\ \A i \in 1..Len(frames) : ~FromSubscriber(frames[i].lastError)
    /\ ~FromSubscriber(outcome.error)
    /\ Count(events, {"payment.created", "payment.success", "refund.success",
                      "refund.status.checked"}) >= 1 =>
          outcome.status = "resolved"

\* The public methods that can reject.
PublicMethods ==
    ServiceOps \cup LegacyOps \cup DirectOps \cup {"handleWebhook"}

\* C11: whenever a public method rejects, it rejects with a BkashError
\* that carries a code; no ZodError, AxiosError, subscriber or callback
\* error leaves the client as it is.
C11_OnlyClassifiedErrors ==
    (call.op \in PublicMethods /\ outcome.status = "rejected") =>
        /\ outcome.error.kind = "BkashError"
        /\ outcome.error.code # ""

\* C12: with a webhook secret configured, handleWebhook rejects with
\* WEBHOOK_SIGNATURE_MISSING when no signature is supplied and with
\* WEBHOOK_SIGNATURE_INVALID when the supplied signature does not verify;
\* in both cases nothing is published and onEvent is not invoked, at any
\* point of the call.
C12_UnverifiedNeverDelivered ==
    (call.op = "handleWebhook" /\ cfgSecret # NoSecret) =>
        LET missing == call.signature = <<>>
            invalid == ~missing /\ ~VerifyWebhookSignature(cfgSecret, call.payload,
                                                           call.signature)
        IN  /\ (missing \/ invalid) => (events = <<>> /\ callbackRuns = 0)
            /\ (missing /\ pc = "idle") =>
                  /\ outcome.status = "rejected"
                  /\ outcome.error.kind = "BkashError"
                  /\ outcome.error.code = "WEBHOOK_SIGNATURE_MISSING"
            /\ (invalid /\ pc = "idle") =>
                  /\ outcome.status = "rejected"
                  /\ outcome.error.kind = "BkashError"
                  /\ outcome.error.code = "WEBHOOK_SIGNATURE_INVALID"

\* C12 witness: a webhook whose signature is the HMAC of another payload
\* has been refused.
C12_Witness ==
    /\ call.op = "handleWebhook"
    /\ cfgSecret # NoSecret
    /\ \E p \in Payloads : /\ p # call.payload
                            /\ call.signature = HexEncode(Hmac(cfgSecret, p))
    /\ outcome.status = "rejected"
    /\ outcome.error.code = "WEBHOOK_SIGNATURE_INVALID"
    /\ events = <<>>

\* Two strings of one length that differ in exactly one position.
OneCharChanged(a, b) ==
    /\ Len(a) = Len(b)
    /\ Cardinality({i \in 1..Len(a) : a[i] # b[i]}) = 1

\* C13: with a secret configured, verifyWebhookSignature returns true for
\* a payload and the hex HMAC-SHA256 of that payload, and false when one
\* character of the payload or of the signature has been changed.
C13_OnlyExactSignature ==
    (call.op = "verifyWebhookSignature" /\ cfgSecret # NoSecret /\ pc = "idle") =>
        LET correct == HexEncode(Hmac(cfgSecret, call.payload)) IN
        /\ outcome.status = "resolved"
        /\ call.signature = correct => outcome.value = TRUE
        /\ OneCharChanged(call.signature, correct) => outcome.value = FALSE
        /\ (\E p \in Payloads :
               /\ OneCharChanged(p, call.payload)
               /\ call.signature = HexEncode(Hmac(cfgSecret, p)))
              => outcome.value = FALSE

\* C14: when getToken() rejects, every acquisition attempt having failed,
\* the error is a BkashError of code TOKEN_ERROR and the cache holds no
\* token and no expiry.
C14_FailedAcquisitionEmptiesCache ==
    (call.op = "getToken" /\ outcome.status = "rejected") =>
        /\ outcome.error.kind = "BkashError"
        /\ outcome.error.code = "TOKEN_ERROR"
        /\ token = NoToken
        /\ tokenExpiry = NoExpiry

\* C15: grantToken() and refreshToken(v) never read or modify the token
\* cache.  No step of either call changes the cached token or expiry;
\* each call posts its one request whatever the cache holds, and what it
\* resolves with is the token the upstream issued for it, not a cached
\* one; and a getToken() that finds the cache empty or expired acquires,
\* whichever calls came before it.
C15_DirectCallsLeaveCache ==
    /\ [][(pc \in {"directRequest", "directWait"}) =>
            (token' = token /\ tokenExpiry' = tokenExpiry)]_vars
    /\ []((call.op \in DirectOps /\ pc = "idle") =>
            /\ tokenReqs = 1
            /\ (outcome.status = "resolved" /\ outcome.value # NoToken) =>
                  outcome.value > call.seq0)
    /\ []((call.op = "getToken" /\ outcome.status = "resolved"
            /\ ~TokenValid(call.tok0, call.exp0, call.t0)) =>
            (tokenReqs >= 1 /\ outcome.value > call.seq0))

\* C15 witness: grantToken() or refreshToken(v) resolved with a new token
\* while the cache held another, which it still holds.
C15_Witness ==
    /\ call.op \in DirectOps
    /\ outcome.status = "resolved"
    /\ outcome.value # NoToken
    /\ call.tok0 # NoToken
    /\ token = call.tok0
    /\ tokenExpiry = call.exp0
    /\ token # outcome.value

\* The callers whose getToken() has returned a token.
Returned == {p \in Procs : procs[p].pc = "done" /\ procs[p].status = "resolved"}

\* The callers whose own acquisition has received a token.
Acquirers == {p \in Returned : procs[p].acquired # NoToken}

\* C16: with callers of getToken() running concurrently, a caller that
\* acquired returns the token of its own acquisition; every completed
\* acquisition overwrites the cache, so the cache holds the token of the
\* acquisition that completed last; once the callers have completed, the
\* cached token is one they acquired and was live when the last of them
\* completed; and the token a caller returns is never absent and was not
\* expired when it was returned.
C16_ConcurrentAcquisitions ==
    /\ \A p \in Returned :
          /\ procs[p].result # NoToken
          /\ procs[p].expiry > procs[p].doneAt
          /\ procs[p].acquired # NoToken =>
                /\ procs[p].result = procs[p].acquired
                /\ procs[p].acquired > procs[p].seq0
    /\ \A p, q \in Acquirers : p # q => procs[p].acquired # procs[q].acquired
    /\ tokSeq > 0 => token = tokSeq
    /\ Acquirers # {} =>
          LET last == CHOOSE p \in Acquirers :
                         \A q \in Acquirers : procs[q].acquired <= procs[p].acquired
          IN  /\ token >= procs[last].acquired
              /\ tokenExpiry > procs[last].doneAt
              /\ (Returned = Procs /\ Acquirers = Procs) =>
                    /\ token = procs[last].acquired
                    /\ tokenExpiry = procs[last].expiry

\* C16 witness: the second caller called while the first was acquiring,
\* both acquired, and the cache holds the token of the one that completed
\* last, here the one that called first.
C16_Witness ==
    /\ Acquirers = Procs
    /\ procs[2].overlap
    /\ procs[1].acquired > procs[2].acquired
    /\ token = procs[1].acquired
    /\ procs[2].result = procs[2].acquired

\* The operations that only ask the gateway about a payment or transaction.
QueryOps == {"queryPayment", "checkTransactionStatus", "searchTransaction",
             "searchTransactionLegacy"}

\* C17, as claimed: queryPayment, checkTransactionStatus,
\* searchTransaction, searchTransactionLegacy and checkRefundStatus never
\* publish an event, and only create, execute and refund operations do.
C17_ReadOnlyOpsSilent ==
    /\ call.op \in QueryOps \cup {"checkRefundStatus"} => events = <<>>
    /\ events # <<>> =>
          call.op \in {"createPayment", "createPaymentFull", "executePayment",
                       "refundPayment", "refundPaymentLegacy"}

\* C17, amended: queryPayment, checkTransactionStatus, searchTransaction
\* and searchTransactionLegacy never publish an event, on success or on
\* failure; checkRefundStatus publishes refund.status.checked and
\* refund.status.failed events and has published at least one when it
\* settles; and only the create, execute, verify, refund and refund status
\* operations publish events.
C17_QueryOpsSilent ==
    /\ call.op \in QueryOps => events = <<>>
    /\ call.op = "checkRefundStatus" =>
          /\ \A i \in 1..Len(events) :
                events[i] \in {"refund.status.checked", "refund.status.failed"}
          /\ outcome.status # "none" => events # <<>>
          /\ outcome.status = "resolved" => Last(events) = "refund.status.checked"
    /\ events # <<>> =>
          call.op \in {"createPayment", "createPaymentFull", "executePayment",
                       "verifyPayment", "refundPayment", "refundPaymentLegacy",
                       "checkRefundStatus"}

\* C17 witness: a query operation whose API requests all failed has
\* rejected without an event.
C17_Witness ==
    /\ call.op \in QueryOps
    /\ call.valid
    /\ outcome.status = "rejected"
    /\ apiReqs >= 1
    /\ events = <<>>

\* The public methods that send requests to the gateway.
UpstreamCallers == ServiceOps \cup LegacyOps \cup DirectOps

\* C18: a public method that calls the upstream and was given valid input
\* rejects only after maxAttempts attempts, so after at least maxAttempts
\* upstream requests, and then with a BkashError whose details are the
\* upstream error body, if there was one.
C18_UpstreamFailuresRetried ==
    ( /\ call.op \in UpstreamCallers
      /\ call.valid /\ call.legacyValid
      /\ outcome.status = "rejected" ) =>
        /\ tokenReqs + apiReqs >= ConfiguredAttempts
        /\ outcome.error.kind = "BkashError"
        /\ \A i \in 1..Len(outcome.error.details) :
              outcome.error.details[i].kind = "ResponseData"

\* C19: a request service operation whose input fails validation contacts
\* neither the token manager nor the gateway, on any of its attempts: it
\* issues no token request and no API request, never enters getToken and
\* never holds a token.
C19_InvalidInputContactsNobody ==
    ( /\ call.op \in ServiceOps \cup LegacyOps
      /\ ~(call.valid /\ call.legacyValid) ) =>
        /\ tokenReqs = 0
        /\ apiReqs = 0
        /\ authToken = NoToken
        /\ pc \notin {"getToken", "tokenWait", "apiRequest", "apiWait"}
        /\ \A i \in 1..Len(frames) : frames[i].kind = "op"

\* C19 witness: a call with invalid input was given up after its input
\* had been parsed on two or more attempts, while a valid token was cached.
C19_Witness ==
    /\ call.op \in ServiceOps \cup LegacyOps
    /\ ~call.valid
    /\ outcome.status = "rejected"
    /\ validations >= 2
    /\ TokenValid(token, tokenExpiry, call.t0)

\* C20: a call whose input fails validation rejects with the validation
\* error itself, a ZodError, not with a BkashError around it.
C20_ValidationErrorRaw ==
    ( /\ call.op \in ServiceOps \cup LegacyOps
      /\ ~(call.valid /\ call.legacyValid)
      /\ outcome.status = "rejected" ) =>
        outcome.error.kind = "ZodError"

ConfiguredDelay == IF cfgRetryDelay = Unset THEN 1000 ELSE cfgRetryDelay

RECURSIVE Sum(_)
Sum(s) == IF s = <<>> THEN 0 ELSE s[1] + Sum(Tail(s))

\* C21: retryOperation sleeps delayMs * k after the k-th failed attempt when
\* another attempt follows, and does not sleep after the last attempt.  At
\* every moment the sleeps so far are delayMs * 1, delayMs * 2, ... in that
\* order, one per failure that was followed by a retry; when the operation
\* first succeeds on attempt N they are N - 1 and add up to
\* delayMs * N * (N - 1) / 2; when every attempt failed they are
\* maxAttempts - 1.
C21_LinearBackoff ==
    /\ sleeps = [k \in 1..Len(sleeps) |-> ConfiguredDelay * k]
    /\ \A i \in 1..Len(frames) :
          Len(sleeps) = IF Len(frames[i].caught) < ConfiguredAttempts
                        THEN Len(frames[i].caught)
                        ELSE ConfiguredAttempts - 1
    /\ lastRetry.status = "resolved" =>
          /\ Len(sleeps) = lastRetry.invoked - 1
          /\ 2 * Sum(sleeps) =
                ConfiguredDelay * lastRetry.invoked * (lastRetry.invoked - 1)
    /\ lastRetry.status = "rejected" =>
          Len(sleeps) = ConfiguredAttempts - 1

\* C21 witness: an operation that succeeded on its third attempt, after
\* sleeps of delayMs and 2 * delayMs.
C21_Witness ==
    /\ lastRetry.kind = "raw"
    /\ lastRetry.status = "resolved"
    /\ lastRetry.invoked = 3
    /\ sleeps = <<ConfiguredDelay, 2 * ConfiguredDelay>>

\* The decimal text of a positive number 0.d1 ... dk * 10^point: its digits
\* with the decimal point in place, whatever the magnitude.
Decimal(amount) ==
    LET s == DigitString(amount.digits)
        k == Len(s)
        n == amount.point
    IN  IF k <= n THEN s \o Zeros(n - k)
        ELSE IF 0 < n THEN SubSeq(s, 1, n) \o <<".">> \o SubSeq(s, n + 1, k)
        ELSE <<"0", ".">> \o Zeros(-n) \o s

\* The canonical refund request of a legacy refund request.
Canonical(refundData) ==
    [paymentId |-> refundData.paymentId,
     trxId |-> refundData.transactionId,
     refundAmount |-> Decimal(refundData.amount),
     sku |-> "LEGACY",
     reason |-> IF refundData.reason = {} THEN "Customer request"
                ELSE CHOOSE r \in refundData.reason : TRUE]

\* C26: the request refundPaymentLegacy({paymentId, transactionId, amount,
\* reason?}) hands to refundPayment is exactly {paymentId, trxId:
\* transactionId, refundAmount: the decimal string of amount, sku: "LEGACY",
\* reason}, with the caller's reason when one is given and "Customer
\* request" when none is; and it is handed over once.
C26_CanonicalRefundRequest ==
    call.op = "refundPaymentLegacy" =>
        /\ Len(serviceCalls) <= 2
        /\ Len(serviceCalls) = 2 =>
              serviceCalls[2] = [service |-> "refundService",
                                 method |-> "refundPayment",
                                 args |-> Canonical(call.args)]

\* The legacy call went through to refundPayment and resolved.
LegacyRefundResolved ==
    /\ call.op = "refundPaymentLegacy"
    /\ pc = "idle"
    /\ outcome.status = "resolved"

\* C27: the response of refundPaymentLegacy is made from the response of
\* refundPayment alone: statusCode / statusMessage are "0000" /
\* "Successful" exactly when refundTransactionStatus is "Completed" and
\* "0001" / "Failed" for every other status.  The call makes one
\* refundPayment call, and every upstream request (token or API) is issued
\* while that call runs: none before it, none after it has settled.
C27_LegacyResponseFromCanonical ==
    /\ [](LegacyRefundResolved =>
            /\ Len(serviceCalls) = 2
            /\ IF responseData.refundTransactionStatus = "Completed"
               THEN result.statusCode = "0000" /\ result.statusMessage = "Successful"
               ELSE result.statusCode = "0001" /\ result.statusMessage = "Failed")
    /\ [][(call.op = "refundPaymentLegacy"
             /\ (apiReqs' # apiReqs \/ tokenReqs' # tokenReqs)) =>
            (frames # <<>> /\ Len(serviceCalls) = 2 /\ serviceCalls' = serviceCalls
             /\ call' = call)]_vars

\* C27 witness: a legacy refund whose refund response, received on a
\* second attempt, said "Failed": the caller got "0001" / "Failed".
C27_Witness ==
    /\ LegacyRefundResolved
    /\ responseData.refundTransactionStatus = "Failed"
    /\ result.statusCode = "0001"
    /\ apiReqs = 2

\* C22: for the payment a caller created and then executes or verifies,
\* payment.created is published before any payment.success or
\* payment.failed of that payment, whatever other operations publish in
\* between: every success / failed event about a payment of this caller
\* has an earlier payment.created event about the same payment.
C22_CreatedBeforeOutcome ==
    \A i \in 1..Len(events) :
        ( /\ events[i] \in {"payment.success", "payment.failed"}
          /\ eventData[i] # OtherPayment ) =>
            \E j \in 1..(i - 1) :
                /\ events[j] = "payment.created"
                /\ eventData[j] = eventData[i]

\* C22 witness: the payment was created, another operation published an
\* event of its own, and then the execution of the payment published
\* payment.success.
C22_Witness ==
    /\ call.op = "executePayment"
    /\ call.args # NoPayment
    /\ outcome.status = "resolved"
    /\ \E i, j, k \in 1..Len(events) :
          /\ i < j /\ j < k
          /\ events[i] = "payment.created" /\ eventData[i] = call.args
          /\ eventData[j] = OtherPayment
          /\ events[k] = "payment.success" /\ eventData[k] = call.args

\* C28: whenever createPayment resolves, the paymentID it returns is a
\* non-empty string, and no payment.created event is published for a
\* response without a payment identifier.
C28_PaymentIdReturned ==
    /\ (call.op = "createPayment" /\ outcome.status = "resolved") =>
          result.paymentID # NoPayment
    /\ \A i \in 1..Len(events) :
          events[i] = "payment.created" => eventData[i] # NoPayment

\* handleWebhook was given a payload it accepts and has run up to its
\* await, or to its end.
WebhookAccepted ==
    /\ call.op = "handleWebhook"
    /\ pc # "handleWebhook"
    /\ Refusal(cfgSecret, call.payload, call.signature) = ""

\* C23: for an accepted webhook, handleWebhook first publishes the payload,
\* then invokes the configured callback exactly once with that payload,
\* and resolves only after the callback has settled: while the callback is
\* pending the call has not settled, and a call that is over has published
\* the payload once and, when a callback is configured, has invoked it
\* once, after the publication, with the payload.
C23_PublishThenCallback ==
    WebhookAccepted =>
        /\ events = <<"webhook">> /\ eventData = <<call.payload>>
        /\ pc = "onEvent" => outcome = NoOutcome
        /\ (pc = "idle" /\ cfgOnEvent) =>
              /\ callbackRuns = 1
              /\ Last(serviceCalls) = OnEventCall(call.payload)
        /\ ~cfgOnEvent => callbackRuns = 0
        /\ outcome.status = "resolved" => pc = "idle"

\* C24: with no webhook secret configured handleWebhook checks no
\* signature: whatever the payload and the signature (or none), it
\* resolves, having republished the payload once, unchanged.
C24_NoSecretNoCheck ==
    (call.op = "handleWebhook" /\ cfgSecret = NoSecret /\ pc = "idle") =>
        /\ outcome.status = "resolved"
        /\ events = <<"webhook">>
        /\ eventData = <<call.payload>>

\* C25: with a secret configured, verifyWebhookSignature returns false,
\* and does not throw, whenever the length of the supplied signature
\* differs from the length of the expected one (two hex digits a byte of
\* the digest), the empty string and strings that are not hex included.
C25_LengthMismatchIsFalse ==
    ( /\ call.op = "verifyWebhookSignature"
      /\ cfgSecret # NoSecret
      /\ pc = "idle"
      /\ Len(call.signature) # Len(HexEncode(Hmac(cfgSecret, call.payload))) ) =>
        outcome = Resolved(FALSE)

\* The methods of the client that hand their call to a service.
ClientMethods == ServiceOps \cup LegacyOps \cup DirectOps

\* The service that has the method of this name.
Owner(op) ==
    IF op \in DirectOps THEN "tokenManager"
    ELSE IF op \in PaymentOps THEN "paymentService"
    ELSE IF op \in TransactionOps \/ op = "searchTransactionLegacy"
         THEN "transactionService"
    ELSE "refundService"

SameLifetime ==
    /\ call.tok0 # NoToken
    /\ call.exp0 # NoExpiry
    /\ now < call.exp0
    /\ ~(pc = "idle" /\ token = NoToken)

RequestOps == ServiceOps \cup LegacyOps

\* C30: the request services share one token manager with one cached
\* token.  An operation of any of them that runs within the lifetime of
\* the cached token issues no acquisition request and sends that token;
\* an acquisition request is issued by a request service operation only
\* when no live token is cached; so the one request that began the
\* lifetime is the only one of that lifetime, whatever the operations and
\* their services.
C30_OneAcquisitionPerLifetime ==
    /\ []((call.op \in RequestOps /\ SameLifetime) =>
            /\ tokenReqs = 0
            /\ tokSeq = call.seq0
            /\ token = call.tok0 /\ tokenExpiry = call.exp0
            /\ authToken \in {NoToken, call.tok0})
    /\ [][(call.op \in RequestOps /\ tokenReqs' > tokenReqs) =>
            ~(token # NoToken /\ tokenExpiry # NoExpiry /\ now < tokenExpiry)]_vars

\* C30 witness: a refund made with the token an earlier call had acquired,
\* without any acquisition request of its own.
C30_Witness ==
    /\ call.op = "refundPayment"
    /\ SameLifetime
    /\ call.tok0 = 1
    /\ calls = 2
    /\ apiReqs = 1
    /\ authToken = 1
    /\ tokenReqs = 0
    /\ outcome.status = "resolved"

\* The lifetime a grant response declares, in seconds; 3600 when it
\* declares none.
DeclaredLifetime(data) ==
    IF data.expires_in = {} THEN 3600 ELSE CHOOSE n \in data.expires_in : TRUE

\* C31: when an acquisition of getToken succeeds, the cached token is the
\* id_token of the response and the cached expiry is the time the response
\* was processed plus the lifetime the response declares in expires_in,
\* in seconds; plus 3600 seconds when the response declares no lifetime.
C31_ExpiryFromDeclaredLifetime ==
    [][(pc = "tokenWait" /\ pc' # "retryCatch") =>
          /\ token' = tokenData'.id_token
          /\ token' # NoToken
          /\ tokenExpiry' = now' + DeclaredLifetime(tokenData') * 1000]_vars

\* C32: a call that has started settles: it resolves or rejects, its
\* operation having been attempted at most maxAttempts times, provided
\* every request and every operation it awaits settles.
C32_RetrySequenceEnds ==
    /\ [](\A i \in 1..Len(frames) : frames[i].invoked <= ConfiguredAttempts)
    /\ [](pc = "idle" /\ calls > 0 /\ call.op # "none" =>
             outcome.status \in {"resolved", "rejected"})
    /\ (pc # "idle") ~> (pc = "idle")

\* C32 witness: with maxRetries 2, an executePayment whose requests were
\* all rejected, settled after its second attempt and one backoff sleep.
C32_Witness ==
    /\ pc = "idle"
    /\ call.op = "executePayment"
    /\ cfgMaxRetries = 2
    /\ outcome.status = "rejected"
    /\ lastRetry.kind = "op"
    /\ lastRetry.invoked = 2
    /\ apiReqs = 2
    /\ Len(sleeps) = 1

\* The operations that change something at the upstream.
MutatingOps == {"createPayment", "executePayment", "refundPayment"}

\* C33: while an API request of a call of createPayment, executePayment or
\* refundPayment is in flight, no earlier request of that call has been
\* answered with success (the call has published no payment.created,
\* payment.success or refund.success): a mutating request that succeeded
\* is not sent again, whatever the subscribers do.
C33_NoRequestAfterSuccess ==
    (pc = "apiWait" /\ call.op \in MutatingOps) =>
        Count(events, {SuccessEvent(op, "ok") : op \in MutatingOps}) = 0

\* The operations whose catch block publishes a failure event.
FailureOps == {"executePayment", "verifyPayment", "refundPayment", "checkRefundStatus"}

\* C34: a call of executePayment, verifyPayment, refundPayment or
\* checkRefundStatus that has resolved has published no failure event
\* (payment.failed, refund.failed, refund.status.failed), so no failure
\* event of a call is followed by a success event of it.
C34_NoFailureEventWhenResolved ==
    (pc = "idle" /\ call.op \in FailureOps /\ outcome.status = "resolved") =>
        Count(events, {FailureEvent(op) : op \in FailureOps}) = 0

\* C35: when the upstream answers a request of executePayment with an HTTP
\* success whose statusCode is not "0000" (the step that publishes
\* payment.failed on a response), the call resolves there and then with
\* that response: payment.failed is the one event it has published, and
\* nothing is thrown, caught or retried.
C35_FailedStatusResolves ==
    [][(/\ pc = "apiWait"
        /\ call.op = "executePayment"
        /\ events' = Append(events, "payment.failed")) =>
          /\ pc' = "idle"
          /\ outcome'.status = "resolved"
          /\ result' = responseData'
          /\ events' = <<"payment.failed">>]_vars

\* C36: with getToken() callers, grantToken(), refreshToken(v) and
\* clearToken() interleaved and acquisitions failing, the cached token and
\* the cached expiry are both absent or both present; and whenever the
\* cache changes, either both are cleared or both are written from the
\* grant response processed in that step: the token is its id_token and
\* the expiry is computed from its expires_in.
C36_TokenAndExpiryTogether ==
    /\ []((token = NoToken) <=> (tokenExpiry = NoExpiry))
    /\ [][(token' # token \/ tokenExpiry' # tokenExpiry) =>
             \/ token' = NoToken /\ tokenExpiry' = NoExpiry
             \/ /\ tokenData' # tokenData
                /\ tokSeq' = tokSeq + 1
                /\ token' = tokSeq'
                /\ tokenData'.id_token = token'
                /\ tokenExpiry' = ExpiryOf(now', tokenData'.expires_in)]_vars

\* C36 witness: two callers of getToken() overlapped, one of them after a
\* failed attempt; both acquired; grantToken() returned a token of its own
\* meanwhile; and the cache holds the token and the expiry of one and the
\* same acquisition.
C36_Witness ==
    /\ Acquirers = Procs
    /\ procs[2].overlap
    /\ \E p \in Procs : procs[p].attempt > 1
    /\ call.op = "grantToken"
    /\ outcome.status = "resolved"
    /\ outcome.value \notin {NoToken} \cup {procs[p].acquired : p \in Procs}
    /\ \E p \in Procs : token = procs[p].acquired /\ tokenExpiry = procs[p].expiry

\* C37: a rejected API request leaves the token cache as it is, and so do
\* the catch blocks that follow it; and an attempt of the operation that
\* comes after an API request of the same call and finds the cached token
\* live (now < expiresAt) is given that same token again, without a grant
\* request.
C37_RejectedRequestKeepsCache ==
    [][/\ (pc = "apiWait" /\ pc' = "opCatch") => UNCHANGED <<token, tokenExpiry>>
       /\ (pc \in {"opCatch", "retryCatch"}) => UNCHANGED <<token, tokenExpiry>>
       /\ (/\ pc = "getToken"
           /\ apiReqs > 0
           /\ token # NoToken
           /\ now < tokenExpiry) =>
             /\ pc' = "apiRequest"
             /\ authToken' = authToken
             /\ authToken' = token
             /\ UNCHANGED <<token, tokenExpiry, tokenReqs>>]_vars

\* C37 witness: the second attempt of an operation is about to send the
\* token its first attempt acquired, after the upstream rejected the first
\* request with a response.
C37_Witness ==
    /\ pc = "apiRequest"
    /\ call.op \in ServiceOps
    /\ Top.attempt = 2
    /\ apiReqs = 1
    /\ tokenReqs = 1
    /\ authToken = token
    /\ now < tokenExpiry
    /\ Top.lastError.details # <<>>
    /\ Top.lastError.details[1].kind = "ResponseData"

\* The error of an acquisition attempt whose response carried no id_token:
\* the BkashError of the check, wrapped by the catch block.
NoIdToken(e) == e.details # <<>> /\ e.details[1].kind = "BkashError"

\* C38: in a call of getToken(), an acquisition response without id_token
\* is a failed attempt: it is thrown as TOKEN_ERROR with the cache as the
\* call found it; it uses up one attempt of the budget and, unless it was
\* the last, the next attempt is made; after the last, with the cache
\* still as the call found it, getToken rejects with TOKEN_ERROR, having
\* posted maxAttempts requests.  getToken never resolves with no token.
C38_MissingIdTokenIsFailure ==
    call.op = "getToken" =>
        /\ (pc = "retryCatch" /\ NoIdToken(thrown)) =>
              /\ thrown.code = "TOKEN_ERROR"
              /\ tokenData.id_token = NoToken
              /\ token = call.tok0
              /\ tokenExpiry = call.exp0
        /\ (pc = "invoke" /\ NoIdToken(Top.lastError)) =>
              /\ Top.attempt = Top.invoked + 1
              /\ tokenReqs = Top.invoked
              /\ token = call.tok0
              /\ tokenExpiry = call.exp0
              /\ Top.invoked < ConfiguredAttempts => ENABLED Invoke
              /\ Top.invoked >= ConfiguredAttempts => ENABLED RetryThrow
        /\ (pc = "idle" /\ outcome.status = "rejected" /\ NoIdToken(outcome.error)) =>
              /\ outcome.error.code = "TOKEN_ERROR"
              /\ tokenReqs = ConfiguredAttempts
        /\ (pc = "idle" /\ outcome.status = "resolved") => outcome.value # NoToken

\* C38 witness: with maxRetries 2 and an expired token in the cache,
\* getToken() was answered twice without id_token and has rejected.
C38_Witness ==
    /\ pc = "idle"
    /\ call.op = "getToken"
    /\ cfgMaxRetries = 2
    /\ call.tok0 # NoToken
    /\ outcome.status = "rejected"
    /\ NoIdToken(outcome.error)
    /\ tokenReqs = 2
    /\ tokenData = GrantData(NoToken, {})

\* C39: for every input LegacyRefundDataSchema accepts, the input that
\* refundPaymentLegacy hands to refundPayment passes RefundDataSchema: no
\* attempt of the refund is stopped by validation, and the call does not
\* settle before it has gone to the upstream.
C39_LegacyInputPassesCanonical ==
    (call.op = "refundPaymentLegacy" /\ LegacyRefundDataValid(call.args)) =>
        /\ Len(serviceCalls) = 2 => RefundDataValid(serviceCalls[2].args)
        /\ thrown.kind # "ZodError"
        /\ (pc = "idle" /\ outcome.status # "none") => tokenReqs > 0

============================================================================
